---- MODULE Spec2Model ----
(***************************************************************************)
(* docln-fetch: a conversion job (crawler.rs) that scrapes a novel listing, *)
(* fetches covers, chapters and inline illustrations into the working tree  *)
(* epub_<id>/, writes the package metadata (epub.rs generate_epub_metadata) *)
(* and folds the tree into an archive (epub.rs compress_epub).              *)
(*                                                                         *)
(* Paths are tuples of components (the '/' of format!/Path::join is the     *)
(* tuple structure); file names and ids are strings built as format! does.  *)
(***************************************************************************)
EXTENDS Integers, Sequences, FiniteSets, TLC

VARIABLES
    pc,                \* position of the job's thread of control
    result,            \* what fetch_novel_info returned: "none" | "Ok" | "Err"
    title, author,     \* parse_novel_info locals (strings, "" when empty)
    cover_image_path,  \* novel cover: None or a path relative to OEBPS
    volumes,           \* parse_novel_info local `volumes` (the Vec<Volume> pushed so far)
    volume_index,      \* enumerate() index of the list item being processed
    volume_title,      \* title of the list item being processed (tuple of characters)
    volume_cover_path, \* its resolved cover: None or a path relative to OEBPS
    chapters,          \* its `chapters` Vec<Chapter>
    chapter_index,     \* enumerate() index inside fetch_and_process_chapters
    attempts,          \* fetch_chapter_content calls of the running loop: [index, ok], in order
    chapters_result,   \* what fetch_and_process_chapters returned: "none" | "Ok" | "Err"
    files,             \* regular files of the working tree (paths relative to epub_dir)
    dirs,              \* directories of the working tree
    requests,          \* number of HTTP requests issued so far
    faults,            \* failures the environment may still inject: "none" | "one" | "any"
    dir_order,         \* how read_dir orders a directory's entries: [rot, rev]
    content_opf,       \* what was written to OEBPS/content.opf: None or [manifest, spine]
    toc_ncx,           \* what was written to OEBPS/toc.ncx: None or the navMap
    zip,               \* the archive file: None or [members, finished]
    zip_result,        \* what compress_epub returned: "none" | "Ok" | "Err"
    call               \* SpecChapter: one fetch_chapter_content call, its inputs and its result

vars == <<pc, result, title, author, cover_image_path, volumes, volume_index,
          volume_title, volume_cover_path, chapters, chapter_index, attempts, chapters_result,
          files, dirs, requests, faults, dir_order, content_opf, toc_ncx, zip,
          zip_result, call>>

(***************************************************************************)
(* Bounds of the model.                                                    *)
(***************************************************************************)
MaxVolumes == 2      \* list items of ol.list-volume
MaxChapters == 2     \* chapters per volume
MaxImgs == 2         \* img elements of one chapter page
MaxTotalChapters == 3 \* chapters of a whole novel handed to generate_epub_metadata
MaxIdIndex == 12      \* volume and chapter numbers for which the id formats are compared

None == <<>>
IsSome(x) == x # None

(***************************************************************************)
(* format!("{:03}", n)                                                     *)
(***************************************************************************)
Pad3(n) ==
    IF n < 10 THEN "00" \o ToString(n)
    ELSE IF n < 100 THEN "0" \o ToString(n)
    ELSE ToString(n)

\* Path::file_name(): the last component of a path
FileName(p) == p[Len(p)]

\* every proper and improper prefix of a directory path: what create_dir_all makes
DirsOf(d) == { SubSeq(d, 1, k) : k \in 0..Len(d) }

(***************************************************************************)
(* Remote URLs: [stem, ext]; ext = "" when the URL path has no extension.  *)
(* Path::new(url).extension().unwrap_or("jpg")                             *)
(***************************************************************************)
Extension(image_url) == IF image_url.ext = "" THEN "jpg" ELSE image_url.ext

\* image_url.contains("nocover")
ContainsNocover(image_url) == image_url.stem = "nocover"

(***************************************************************************)
(* Paragraph fragments.  A paragraph (p_element.html()) is the sequence of  *)
(* its img tags; a tag is [src, alt, closed].  src is a remote URL, a local *)
(* path [path |-> ..], or NoSrc when the attribute is absent or empty.      *)
(* The html5ever serializer never writes "/>", so scraped tags are open.    *)
(***************************************************************************)
NoSrc == [absent |-> TRUE]
Url(stem, ext) == [stem |-> stem, ext |-> ext]
IsUrl(src) == DOMAIN src = {"stem", "ext"}
IsLocal(src) == DOMAIN src = {"path"}
Img(src, alt) == [src |-> src, alt |-> alt, closed |-> FALSE]

\* str::replace on a paragraph: every occurrence of the tag `from` becomes `to`
ReplaceAll(p_html, from, to) ==
    [k \in 1..Len(p_html) |-> IF p_html[k] = from THEN to ELSE p_html[k]]

(***************************************************************************)
(* download_image: the request is always issued; the file is written only   *)
(* when both the transfer and fs::write succeed.                            *)
(* outcome: "ok" | "net" (send/bytes failed) | "fs" (fs::write failed)      *)
(***************************************************************************)
Outcomes == {"ok", "net", "fs"}
DownloadImage(filepath, outcome) ==
    [ok |-> outcome = "ok",
     written |-> IF outcome = "ok" THEN {filepath} ELSE {},
     nreq |-> 1]

\* a file name taken from the URL instead of the sequence number
IllustrationNameFromUrl(illustration_number, image_url) ==
    image_url.stem \o "." \o Extension(image_url)

\* format!("{:03}.{}", illustration_number, extension)
IllustrationName(illustration_number, image_url) ==
    Pad3(illustration_number) \o "." \o Extension(image_url)

ChapterImgDir(volume_index_, chapter_index_) ==
    <<"OEBPS", "images", "volume_" \o Pad3(volume_index_ + 1),
      "chapter_" \o Pad3(chapter_index_ + 1)>>

\* download_illustration, after download_image returned dl: Ok(local_path) or
\* Err, and the file it persisted
IllustrationResult(dl, volume_index_, chapter_index_, filename) ==
    [ok |-> dl.ok,
     written |-> dl.written,
     nreq |-> dl.nreq,
     local_path |-> <<"..", "..", "images", "volume_" \o Pad3(volume_index_ + 1),
                      "chapter_" \o Pad3(chapter_index_ + 1), filename>>]

DownloadIllustration(image_url, illustration_number, volume_index_, chapter_index_, outcome) ==
    IllustrationResult(
        DownloadImage(Append(ChapterImgDir(volume_index_, chapter_index_),
                             IllustrationName(illustration_number, image_url)),
                      outcome),
        volume_index_, chapter_index_, IllustrationName(illustration_number, image_url))

\* the rewritten tag: src replaced, and ">" turned into "/>" unless already closed
ModifiedImg(img, local_path) ==
    [img EXCEPT !.src = [path |-> local_path], !.closed = TRUE]

\* the match on download_illustration's result dl for the element img:
\* Ok splices the rewritten tag into the paragraph and counts, Err is logged
ImgStep(acc, img, dl) ==
    IF dl.ok
    THEN [p |-> ReplaceAll(acc.p, img, ModifiedImg(img, dl.local_path)),
          counter |-> acc.counter + 1,
          written |-> acc.written \cup dl.written,
          nreq |-> acc.nreq + dl.nreq]
    ELSE [acc EXCEPT !.nreq = @ + dl.nreq]

(***************************************************************************)
(* download_chapter_illustrations, inner loop: the img elements of the      *)
(* ORIGINAL paragraph in document order; acc = [p, counter, written, nreq]  *)
(* with p the paragraph as modified so far.                                 *)
(***************************************************************************)
RECURSIVE ImgLoop(_, _, _, _, _, _)
ImgLoop(p_html, outs, i, acc, volume_index_, chapter_index_) ==
    IF i > Len(p_html) THEN acc
    ELSE IF ~IsUrl(p_html[i].src)
         THEN ImgLoop(p_html, outs, i + 1, acc, volume_index_, chapter_index_)
         ELSE ImgLoop(p_html, outs, i + 1,
                      ImgStep(acc, p_html[i],
                              DownloadIllustration(p_html[i].src, acc.counter, volume_index_,
                                                   chapter_index_, outs[i])),
                      volume_index_, chapter_index_)

\* modified_paragraphs.push(modified_p_html), the counter carried on
ParaStep(st, acc) ==
    [paragraphs |-> Append(st.paragraphs, acc.p),
     counter |-> acc.counter,
     written |-> acc.written,
     nreq |-> acc.nreq]

\* outer loop over the paragraphs; st = [paragraphs, counter, written, nreq]
RECURSIVE ParaLoop(_, _, _, _, _, _)
ParaLoop(chapter_paragraphs, outs, k, st, volume_index_, chapter_index_) ==
    IF k > Len(chapter_paragraphs) THEN st
    ELSE ParaLoop(chapter_paragraphs, outs, k + 1,
                  ParaStep(st,
                           ImgLoop(chapter_paragraphs[k], outs[k], 1,
                                   [p |-> chapter_paragraphs[k], counter |-> st.counter,
                                    written |-> st.written, nreq |-> st.nreq],
                                   volume_index_, chapter_index_)),
                  volume_index_, chapter_index_)

\* Ok(modified_paragraphs.join("\n")), with what the call did to the tree
IllustrationsDone(st, newdirs) ==
    [ok |-> TRUE, paragraphs |-> st.paragraphs, counter |-> st.counter,
     written |-> st.written, nreq |-> st.nreq, newdirs |-> newdirs]

(***************************************************************************)
(* download_chapter_illustrations: creates the illustration directory       *)
(* first (dir_ok = FALSE: create_dir_all failed, the function returns Err), *)
(* then rewrites the paragraphs.                                            *)
(***************************************************************************)
DownloadChapterIllustrations(chapter_paragraphs, outs, dir_ok, volume_index_, chapter_index_) ==
    IF ~dir_ok
    THEN [ok |-> FALSE, paragraphs |-> <<>>, counter |-> 1, written |-> {},
          nreq |-> 0, newdirs |-> {}]
    ELSE IllustrationsDone(
            ParaLoop(chapter_paragraphs, outs, 1,
                     [paragraphs |-> <<>>, counter |-> 1, written |-> {}, nreq |-> 0],
                     volume_index_, chapter_index_),
            DirsOf(ChapterImgDir(volume_index_, chapter_index_)))

\* the outcome vectors that go with a list of paragraphs
OutcomesFor(chapter_paragraphs) ==
    { o \in [1..Len(chapter_paragraphs) -> UNION {[1..n -> Outcomes] : n \in 0..MaxImgs}] :
        \A k \in 1..Len(chapter_paragraphs) :
            /\ Len(o[k]) = Len(chapter_paragraphs[k])
            /\ \A i \in 1..Len(o[k]) :
                  ~IsUrl(chapter_paragraphs[k][i].src) => o[k][i] = "ok" }

(***************************************************************************)
(* What the scraped pages can hold (bounded).                              *)
(***************************************************************************)
\* the text of span.series-name > a (None: no such element) and of the author
\* link, as the characters of the text nodes (a missing author link leaves "")
TitleInputs ==
    {None, << <<>> >>, << <<" ">> >>, << <<" ", "N", "o", "v", "e", "l", "\n">> >>}
AuthorInputs == {<<>>, <<" ">>, <<"A", "u", "t", "h", "o", "r", " ">>}

\* str::trim: leading and trailing whitespace removed
IsWhitespace(c) == c \in {" ", "\n"}

RECURSIVE TrimStart(_)
TrimStart(chars) ==
    IF chars # <<>> /\ IsWhitespace(Head(chars)) THEN TrimStart(Tail(chars)) ELSE chars

RECURSIVE TrimEnd(_)
TrimEnd(chars) ==
    IF chars # <<>> /\ IsWhitespace(chars[Len(chars)])
    THEN TrimEnd(SubSeq(chars, 1, Len(chars) - 1))
    ELSE chars

Trim(chars) == TrimEnd(TrimStart(chars))

\* .text().collect::<String>(): the characters as one string
RECURSIVE Text(_)
Text(chars) == IF chars = <<>> THEN "" ELSE Head(chars) \o Text(Tail(chars))
CoverUrls == {Url("nocover", "jpg"), Url("c", "png")}
VolumeTitles == {<<"V", " ", "1">>}
NoImgParagraphs == << <<>> >>
ChapterBodies ==
    {NoImgParagraphs,
     << <<Img(Url("a", "jpg"), "x")>> >>,
     << <<Img(Url("b", "webp"), "y")>> >>}

(***************************************************************************)
(* Cover images.                                                           *)
(***************************************************************************)
ImagesDir == <<"OEBPS", "images">>

IsAlphanumeric(c) == c \in {"V", "o", "l", "1", "2"}

\* volume_title.chars().map(|c| if c.is_alphanumeric() || c == ' ' {c} else {'_'})
\*     .collect::<String>().replace(' ', "_")
RECURSIVE SafeVolumeTitle(_)
SafeVolumeTitle(chars) ==
    IF chars = <<>> THEN ""
    ELSE LET c == Head(chars)
             kept == IF IsAlphanumeric(c) \/ c = " " THEN c ELSE "_"
         IN  (IF kept = " " THEN "_" ELSE kept) \o SafeVolumeTitle(Tail(chars))

\* Ok(Some(format!("images/{}", filename))) once download_image returned dl
CoverResult(dl, filename) ==
    [ok |-> dl.ok,
     path |-> IF dl.ok THEN <<"images", filename>> ELSE None,
     written |-> dl.written,
     nreq |-> dl.nreq]

\* a resolver that downloads the placeholder like any other cover
DownloadCoverImageCommonWithoutSentinel(image_url, filename, skip_default, outcome) ==
    CoverResult(DownloadImage(Append(ImagesDir, filename), outcome), filename)

\* download_cover_image_common: Ok(None) for the sentinel, else download_image
DownloadCoverImageCommon(image_url, filename, skip_default, outcome) ==
    IF skip_default /\ ContainsNocover(image_url)
    THEN [ok |-> TRUE, path |-> None, written |-> {}, nreq |-> 0]
    ELSE CoverResult(DownloadImage(Append(ImagesDir, filename), outcome), filename)

\* the result r of download_cover_image_common, with the directories the
\* caller's create_dir_all made before it
InDirs(r, newdirs) ==
    [ok |-> r.ok, path |-> r.path, written |-> r.written, nreq |-> r.nreq,
     newdirs |-> newdirs]

\* download_cover_image / download_volume_cover_image: create_dir_all(images_dir)?
\* comes first (dir_ok = FALSE: Err before any request)
DownloadCover(image_url, filename, dir_ok, outcome) ==
    IF ~dir_ok
    THEN [ok |-> FALSE, path |-> None, written |-> {}, nreq |-> 0, newdirs |-> {}]
    ELSE InDirs(DownloadCoverImageCommon(image_url, filename, TRUE, outcome),
                DirsOf(ImagesDir))

DownloadCoverImage(image_url, dir_ok, outcome) ==
    DownloadCover(image_url, "cover." \o Extension(image_url), dir_ok, outcome)

DownloadVolumeCoverImage(image_url, volume_title_, dir_ok, outcome) ==
    DownloadCover(image_url,
                  SafeVolumeTitle(volume_title_) \o "." \o Extension(image_url),
                  dir_ok, outcome)

(***************************************************************************)
(* fetch_chapter_content.  env = [page, dir_ok, outs, textdir_ok, write_ok] *)
(* are the outcomes of its request and filesystem calls.  Files and         *)
(* directories made before a failure stay in the tree.                      *)
(***************************************************************************)
TextVolumeDir(volume_index_) == <<"OEBPS", "text", "volume_" \o Pad3(volume_index_ + 1)>>
ChapterFileName(chapter_index_) == "chapter_" \o Pad3(chapter_index_ + 1) \o ".xhtml"

\* fetch_chapter_content from the illustrations on: ill is what
\* download_chapter_illustrations returned (or the untouched paragraphs)
RenderChapter(volume_index_, chapter_index_, ill, env) ==
    LET failed(w, d, n) == [ok |-> FALSE, xhtml_path |-> None, written |-> w,
                            newdirs |-> d, nreq |-> n, doc |-> <<>>]
        volume_dir == TextVolumeDir(volume_index_)
        xhtml_filename == ChapterFileName(chapter_index_)
    IN  IF env.page # "ok" THEN failed({}, {}, 1)
        ELSE IF ~ill.ok THEN failed({}, {}, 1)
        ELSE IF ~env.textdir_ok THEN failed(ill.written, ill.newdirs, 1 + ill.nreq)
        ELSE IF ~env.write_ok
             THEN failed(ill.written, ill.newdirs \cup DirsOf(volume_dir), 1 + ill.nreq)
        ELSE [ok |-> TRUE,
              xhtml_path |-> <<"text", "volume_" \o Pad3(volume_index_ + 1), xhtml_filename>>,
              written |-> ill.written \cup {Append(volume_dir, xhtml_filename)},
              newdirs |-> ill.newdirs \cup DirsOf(volume_dir),
              nreq |-> 1 + ill.nreq,
              doc |-> ill.paragraphs]

FetchChapterContent(volume_index_, chapter_index_, has_illustrations, chapter_paragraphs, env) ==
    RenderChapter(volume_index_, chapter_index_,
                  IF has_illustrations
                  THEN DownloadChapterIllustrations(chapter_paragraphs, env.outs, env.dir_ok,
                                                    volume_index_, chapter_index_)
                  ELSE [ok |-> TRUE, paragraphs |-> chapter_paragraphs, counter |-> 1,
                        written |-> {}, nreq |-> 0, newdirs |-> {}],
                  env)

(***************************************************************************)
(* generate_epub_metadata: the manifest, the spine and the navMap as        *)
(* functions of novel_info.volumes and of the files on disk.                *)
(***************************************************************************)
RECURSIVE Concat(_)
Concat(ss) == IF ss = <<>> THEN <<>> ELSE Head(ss) \o Concat(Tail(ss))

\* fs::read_dir: the entries of a set in some order
RECURSIVE ReadDirOrder(_)
ReadDirOrder(S) ==
    IF S = {} THEN <<>>
    ELSE LET x == CHOOSE y \in S : TRUE IN <<x>> \o ReadDirOrder(S \ {x})

\* str::ends_with over the file names the job can produce
FileStems ==
    {Pad3(k) : k \in 1..(MaxImgs + 1)} \cup {"cover"}
        \cup {SafeVolumeTitle(t) : t \in VolumeTitles}
EndsWith(file_name, suffix) == \E stem \in FileStems : file_name = stem \o suffix

MediaType(file_name) == IF EndsWith(file_name, ".png") THEN "image/png" ELSE "image/jpeg"

Item(id, href, media_type) == [id |-> id, href |-> href, media_type |-> media_type]

ChapterId(i, j) == "chapter" \o ToString(i) \o "_" \o ToString(j)

\* format!("volume{}-cover", i + 1)
VolumeCoverId(i) == "volume" \o ToString(i) \o "-cover"

\* format!("vol{}_chap{}_img{}", i + 1, j + 1, file_name)
IllustrationId(i, j, file_name) ==
    "vol" \o ToString(i) \o "_chap" \o ToString(j) \o "_img" \o file_name

\* lines 93-96: the two fixed items
FixedItems ==
    <<Item("ncx", <<"toc.ncx">>, "application/x-dtbncx+xml"),
      Item("cover-image", <<"images", "cover.jpg">>, "image/jpeg")>>

\* lines 98-109: one image item per volume with a resolved cover (i is 1-based)
VolumeCoverItems(vols) ==
    Concat([i \in 1..Len(vols) |->
        IF IsSome(vols[i].cover_image_path)
        THEN LET filename_str == FileName(vols[i].cover_image_path)
             IN  <<Item(VolumeCoverId(i),
                        <<"images", filename_str>>, MediaType(filename_str))>>
        ELSE <<>>])

\* lines 126-132: one item per listed image file
ImageItems(i, j, listed) ==
    [k \in 1..Len(listed) |->
        Item(IllustrationId(i, j, FileName(listed[k])),
             <<"images", "volume_" \o Pad3(i), "chapter_" \o Pad3(j), FileName(listed[k])>>,
             MediaType(FileName(listed[k])))]

\* lines 111-141: the image files found in the chapter's illustration directory
ChapterImageItems(i, j, tree) ==
    ImageItems(i, j,
        SelectSeq(ReadDirOrder({f \in tree :
                      /\ Len(f) = Len(ChapterImgDir(i - 1, j - 1)) + 1
                      /\ SubSeq(f, 1, Len(f) - 1) = ChapterImgDir(i - 1, j - 1)}),
                  LAMBDA f : \/ EndsWith(FileName(f), ".jpeg")
                             \/ EndsWith(FileName(f), ".jpg")
                             \/ EndsWith(FileName(f), ".png")))

IllustrationItems(vols, tree) ==
    Concat([i \in 1..Len(vols) |->
        Concat([j \in 1..Len(vols[i].chapters) |->
            IF vols[i].chapters[j].has_illustrations
            THEN ChapterImageItems(i, j, tree)
            ELSE <<>>])])

\* a manifest that declares the chapter documents but not the volume-cover units
ChapterItemsWithoutCoverUnits(vols) ==
    Concat([i \in 1..Len(vols) |->
        Concat([j \in 1..Len(vols[i].chapters) |->
             IF IsSome(vols[i].chapters[j].xhtml_path)
             THEN <<Item(ChapterId(i, j), vols[i].chapters[j].xhtml_path,
                         "application/xhtml+xml")>>
             ELSE <<>>])])

\* a manifest that numbers the volume-cover unit like the volume's first chapter
ChapterItemsCoverUnitAsChapterOne(vols) ==
    Concat([i \in 1..Len(vols) |->
        (IF IsSome(vols[i].cover_image_path)
         THEN <<Item(ChapterId(i, 1),
                     <<"text", "volume_" \o Pad3(i), "chapter_000.xhtml">>,
                     "application/xhtml+xml")>>
         ELSE <<>>)
        \o Concat([j \in 1..Len(vols[i].chapters) |->
             IF IsSome(vols[i].chapters[j].xhtml_path)
             THEN <<Item(ChapterId(i, j), vols[i].chapters[j].xhtml_path,
                         "application/xhtml+xml")>>
             ELSE <<>>])])

\* lines 143-164: chapter 0 for a volume with a cover, then the chapters with a document
ChapterItems(vols) ==
    Concat([i \in 1..Len(vols) |->
        (IF IsSome(vols[i].cover_image_path)
         THEN <<Item(ChapterId(i, 0),
                     <<"text", "volume_" \o Pad3(i), "chapter_000.xhtml">>,
                     "application/xhtml+xml")>>
         ELSE <<>>)
        \o Concat([j \in 1..Len(vols[i].chapters) |->
             IF IsSome(vols[i].chapters[j].xhtml_path)
             THEN <<Item(ChapterId(i, j), vols[i].chapters[j].xhtml_path,
                         "application/xhtml+xml")>>
             ELSE <<>>])])

Manifest(vols, tree) ==
    FixedItems \o VolumeCoverItems(vols) \o IllustrationItems(vols, tree) \o ChapterItems(vols)

\* a spine that puts the volume-cover unit after the volume's chapters
SpineCoverLast(vols) ==
    Concat([i \in 1..Len(vols) |->
        Concat([j \in 1..Len(vols[i].chapters) |->
             IF IsSome(vols[i].chapters[j].xhtml_path) THEN <<ChapterId(i, j)>> ELSE <<>>])
        \o (IF IsSome(vols[i].cover_image_path) THEN <<ChapterId(i, 0)>> ELSE <<>>)])

\* lines 171-185: the itemrefs
Spine(vols) ==
    Concat([i \in 1..Len(vols) |->
        (IF IsSome(vols[i].cover_image_path) THEN <<ChapterId(i, 0)>> ELSE <<>>)
        \o Concat([j \in 1..Len(vols[i].chapters) |->
             IF IsSome(vols[i].chapters[j].xhtml_path) THEN <<ChapterId(i, j)>> ELSE <<>>])])

\* a navigation tree built from every chapter, fetched or not
AllChapters(volume) == volume.chapters

\* lines 224-226: volume.chapters.iter().filter(|c| c.xhtml_path.is_some())
ProcessedChapters(volume) == SelectSeq(volume.chapters, LAMBDA c : IsSome(c.xhtml_path))

\* a volume navPoint that points at a cover document whether there is one or not
VolumeTargetAlwaysCoverUnit(volume, i) ==
    <<"text", "volume_" \o Pad3(i), "chapter_000.xhtml">>

\* a volume navPoint that always points at the volume's first processed chapter
VolumeTargetFirstChapter(volume, i) == ProcessedChapters(volume)[1].xhtml_path

\* lines 230-234
VolumeTarget(volume, i) ==
    IF IsSome(volume.cover_image_path)
    THEN <<"text", "volume_" \o Pad3(i), "chapter_000.xhtml">>
    ELSE ProcessedChapters(volume)[1].xhtml_path

\* child navPoints numbered from 1 under every parent
ChildNavPointsNumberedPerVolume(processed_chapters, nav_point_counter) ==
    [k \in 1..Len(processed_chapters) |->
        [playOrder |-> k,
         src |-> processed_chapters[k].xhtml_path]]

\* lines 247-259: the child navPoints, numbered from nav_point_counter
ChildNavPoints(processed_chapters, nav_point_counter) ==
    [k \in 1..Len(processed_chapters) |->
        [playOrder |-> nav_point_counter + k - 1,
         src |-> processed_chapters[k].xhtml_path]]

\* lines 222-264: the navMap, one top-level navPoint per volume with processed chapters
RECURSIVE NavLoop(_, _, _)
NavLoop(vols, i, nav_point_counter) ==
    IF i > Len(vols) THEN <<>>
    ELSE LET processed_chapters == ProcessedChapters(vols[i]) IN
         IF processed_chapters # <<>>
         THEN <<[playOrder |-> nav_point_counter,
                 src |-> VolumeTarget(vols[i], i),
                 volume |-> i,
                 children |-> ChildNavPoints(processed_chapters, nav_point_counter + 1)]>>
              \o NavLoop(vols, i + 1, nav_point_counter + 1 + Len(processed_chapters))
         ELSE NavLoop(vols, i + 1, nav_point_counter)

NavMap(vols) == NavLoop(vols, 1, 1)

(***************************************************************************)
(* The environment's failures.  Every request and every filesystem call of  *)
(* the job may fail; `faults` says how many failures a run may still see.   *)
(***************************************************************************)
Allowed(n) == n = 0 \/ faults = "any" \/ (n = 1 /\ faults = "one")
Spend(n) == IF n = 0 \/ faults = "any" THEN faults ELSE "none"
Bad(ok) == IF ok THEN 0 ELSE 1

(***************************************************************************)
(* The conversion job: crawl_novel -> fetch_novel_info -> parse_novel_info. *)
(***************************************************************************)
Fresh ==
    /\ result = "none"
    /\ title = ""
    /\ author = ""
    /\ cover_image_path = None
    /\ volumes = <<>>
    /\ volume_index = 0
    /\ volume_title = <<>>
    /\ volume_cover_path = None
    /\ chapters = <<>>
    /\ chapter_index = 0
    /\ attempts = <<>>
    /\ chapters_result = "none"
    /\ files = {}
    /\ dirs = {}
    /\ requests = 0
    /\ content_opf = None
    /\ toc_ncx = None
    /\ zip = None
    /\ zip_result = "none"
    /\ call = None

Init ==
    /\ pc = "fetch"
    /\ faults = "one"
    /\ dir_order = [rot |-> 0, rev |-> FALSE]
    /\ Fresh

\* a job that makes its working directory before it has read the listing
FetchNovelInfoMakingTreeFirst ==
    /\ pc = "fetch"
    /\ \E page_ok \in BOOLEAN, t \in TitleInputs, a \in AuthorInputs :
          /\ Allowed(Bad(page_ok))
          /\ faults' = Spend(Bad(page_ok))
          /\ requests' = requests + 1
          /\ dirs' = dirs \cup DirsOf(<<"OEBPS">>)
          /\ IF ~page_ok \/ t = None \/ Trim(a) = <<>>
             THEN /\ result' = "Err"
                  /\ pc' = "done"
                  /\ UNCHANGED <<title, author>>
             ELSE /\ title' = Text(Trim(t[1]))
                  /\ author' = Text(Trim(a))
                  /\ pc' = "cover"
                  /\ UNCHANGED result
    /\ UNCHANGED <<cover_image_path, volumes, volume_index, volume_title,
                   volume_cover_path, chapters, chapter_index, attempts, chapters_result,
                   files, dir_order, content_opf, toc_ncx, zip, zip_result, call>>

\* fetch_novel_info and the head of parse_novel_info: the listing request, then
\* the title element (absent: Err; its trimmed text is taken as it is) and the
\* author (empty after trim: Err)
FetchNovelInfo ==
    /\ pc = "fetch"
    /\ \E page_ok \in BOOLEAN, t \in TitleInputs, a \in AuthorInputs :
          /\ Allowed(Bad(page_ok))
          /\ faults' = Spend(Bad(page_ok))
          /\ requests' = requests + 1
          /\ IF ~page_ok \/ t = None \/ Trim(a) = <<>>
             THEN /\ result' = "Err"
                  /\ pc' = "done"
                  /\ UNCHANGED <<title, author>>
             ELSE /\ title' = Text(Trim(t[1]))
                  /\ author' = Text(Trim(a))
                  /\ pc' = "cover"
                  /\ UNCHANGED result
    /\ UNCHANGED <<cover_image_path, volumes, volume_index, volume_title,
                   volume_cover_path, chapters, chapter_index, attempts, chapters_result,
                   files, dirs, dir_order, content_opf, toc_ncx, zip, zip_result, call>>

\* the outcomes of one cover download: [dir_ok, outcome], a fault each
CoverEnvs(image_url) ==
    {e \in [dir_ok : BOOLEAN, outcome : Outcomes] :
        /\ (~e.dir_ok \/ ContainsNocover(image_url)) => e.outcome = "ok"
        /\ Allowed(Bad(e.dir_ok) + Bad(e.outcome = "ok"))}
CoverFaults(e) == Bad(e.dir_ok) + Bad(e.outcome = "ok")

\* parse_novel_info, the novel cover: Ok(Some(path)) is kept, Ok(None) and Err are logged
NovelCover ==
    /\ pc = "cover"
    /\ \/ UNCHANGED <<cover_image_path, files, dirs, requests, faults>>
       \/ \E image_url \in CoverUrls :
          \E e \in CoverEnvs(image_url) :
          \E r \in {DownloadCoverImage(image_url, e.dir_ok, e.outcome)} :
             /\ cover_image_path' = r.path
             /\ files' = files \cup r.written
             /\ dirs' = dirs \cup r.newdirs
             /\ requests' = requests + r.nreq
             /\ faults' = Spend(CoverFaults(e))
    /\ pc' = "volumes"
    /\ UNCHANGED <<result, title, author, volumes, volume_index, volume_title,
                   volume_cover_path, chapters, chapter_index, attempts, chapters_result,
                   dir_order, content_opf, toc_ncx, zip, zip_result, call>>

\* a list item without data-scrollto: skipped, but enumerate() still counts it
SkipVolumeItem ==
    /\ pc = "volumes"
    /\ volume_index < MaxVolumes
    /\ volume_index' = volume_index + 1
    /\ UNCHANGED <<pc, result, title, author, cover_image_path, volumes, volume_title,
                   volume_cover_path, chapters, chapter_index, attempts, chapters_result,
                   files, dirs, requests, faults, dir_order, content_opf, toc_ncx, zip,
                   zip_result, call>>

NewChapter(has_illustrations) ==
    [has_illustrations |-> has_illustrations, xhtml_path |-> None]

HintLists == UNION {[1..n -> BOOLEAN] : n \in 0..MaxChapters}

\* a list item with data-scrollto: its cover, its chapter list, and
\* create_dir_all(images_dir)? before the chapters are processed
BeginVolume ==
    /\ pc = "volumes"
    /\ volume_index < MaxVolumes
    /\ \E t \in VolumeTitles, has_cover \in BOOLEAN, image_url \in CoverUrls,
          hints \in HintLists :
       \E e \in CoverEnvs(image_url), images_dir_ok \in BOOLEAN :
       \E r \in {IF has_cover
                 THEN DownloadVolumeCoverImage(image_url, t, e.dir_ok, e.outcome)
                 ELSE [ok |-> TRUE, path |-> None, written |-> {}, nreq |-> 0,
                       newdirs |-> {}]},
          nfaults \in {(IF has_cover THEN CoverFaults(e) ELSE 0) + Bad(images_dir_ok)} :
              /\ ~has_cover => (CoverFaults(e) = 0 /\ image_url = Url("c", "png"))
              /\ hints = <<>> => images_dir_ok
              /\ Allowed(nfaults)
              /\ faults' = Spend(nfaults)
              /\ volume_title' = t
              /\ volume_cover_path' = r.path
              /\ files' = files \cup r.written
              /\ requests' = requests + r.nreq
              /\ chapters' = [k \in 1..Len(hints) |-> NewChapter(hints[k])]
              /\ chapter_index' = 0
              /\ attempts' = <<>>
              /\ chapters_result' = "none"
              /\ IF hints = <<>>
                 THEN /\ pc' = "push"
                      /\ dirs' = dirs \cup r.newdirs
                      /\ UNCHANGED result
                 ELSE IF ~images_dir_ok
                 THEN /\ pc' = "done"
                      /\ result' = "Err"
                      /\ dirs' = dirs \cup r.newdirs
                 ELSE /\ pc' = "chapter"
                      /\ dirs' = dirs \cup r.newdirs \cup DirsOf(ImagesDir)
                      /\ UNCHANGED result
    /\ UNCHANGED <<title, author, cover_image_path, volumes, volume_index, dir_order,
                   content_opf, toc_ncx, zip, zip_result, call>>

\* the outcomes of the calls of one fetch_chapter_content; a call that is not
\* reached has no outcome of its own
RECURSIVE SumSeq(_)
SumSeq(s) == IF s = <<>> THEN 0 ELSE Head(s) + SumSeq(Tail(s))

EnvFaults(e) ==
    Bad(e.page = "ok") + Bad(e.dir_ok) + Bad(e.textdir_ok) + Bad(e.write_ok)
    + SumSeq([k \in 1..Len(e.outs) |->
                SumSeq([i \in 1..Len(e.outs[k]) |-> Bad(e.outs[k][i] = "ok")])])

ChapterEnvs(has_illustrations, chapter_paragraphs) ==
    {e \in [page : {"ok", "net"}, dir_ok : BOOLEAN,
            outs : OutcomesFor(chapter_paragraphs),
            textdir_ok : BOOLEAN, write_ok : BOOLEAN] :
        LET images_ok == \A k \in 1..Len(e.outs) : \A i \in 1..Len(e.outs[k]) :
                             e.outs[k][i] = "ok"
        IN  /\ Allowed(EnvFaults(e))
            /\ ~has_illustrations => (e.dir_ok /\ images_ok)
            /\ e.page # "ok" => (e.dir_ok /\ images_ok /\ e.textdir_ok /\ e.write_ok)
            /\ ~e.dir_ok => (images_ok /\ e.textdir_ok /\ e.write_ok)
            /\ ~e.textdir_ok => e.write_ok}

\* a loop that takes the delay only after a chapter that was fetched
FetchChapterWithoutDelayOnFailure ==
    /\ pc = "chapter"
    /\ \E body \in ChapterBodies :
       \E env \in ChapterEnvs(chapters[chapter_index + 1].has_illustrations, body) :
       \E r \in {FetchChapterContent(volume_index, chapter_index,
                                     chapters[chapter_index + 1].has_illustrations,
                                     body, env)} :
              /\ chapters' = IF r.ok
                             THEN [chapters EXCEPT ![chapter_index + 1].xhtml_path = r.xhtml_path]
                             ELSE chapters
              /\ attempts' = Append(attempts, [index |-> chapter_index, ok |-> r.ok])
              /\ files' = files \cup r.written
              /\ dirs' = dirs \cup r.newdirs
              /\ requests' = requests + r.nreq
              /\ faults' = Spend(EnvFaults(env))
              /\ IF r.ok
                 THEN pc' = "sleep" /\ UNCHANGED <<chapter_index, chapters_result>>
                 ELSE IF chapter_index + 1 < Len(chapters)
                 THEN /\ pc' = "chapter"
                      /\ chapter_index' = chapter_index + 1
                      /\ UNCHANGED chapters_result
                 ELSE /\ pc' = "push"
                      /\ chapters_result' = "Ok"
                      /\ UNCHANGED chapter_index
    /\ UNCHANGED <<result, title, author, cover_image_path, volumes, volume_index,
                   volume_title, volume_cover_path,
                   dir_order, content_opf, toc_ncx, zip, zip_result, call>>

\* fetch_and_process_chapters, one iteration up to the delay: the chapter is
\* fetched and rendered; Ok sets xhtml_path, Err is logged
FetchChapter ==
    /\ pc = "chapter"
    /\ \E body \in ChapterBodies :
       \E env \in ChapterEnvs(chapters[chapter_index + 1].has_illustrations, body) :
       \E r \in {FetchChapterContent(volume_index, chapter_index,
                                     chapters[chapter_index + 1].has_illustrations,
                                     body, env)} :
              /\ chapters' = IF r.ok
                             THEN [chapters EXCEPT ![chapter_index + 1].xhtml_path = r.xhtml_path]
                             ELSE chapters
              /\ attempts' = Append(attempts, [index |-> chapter_index, ok |-> r.ok])
              /\ files' = files \cup r.written
              /\ dirs' = dirs \cup r.newdirs
              /\ requests' = requests + r.nreq
              /\ faults' = Spend(EnvFaults(env))
    /\ pc' = "sleep"
    /\ UNCHANGED <<result, title, author, cover_image_path, volumes, volume_index,
                   volume_title, volume_cover_path, chapter_index, chapters_result,
                   dir_order, content_opf, toc_ncx, zip, zip_result, call>>

\* a loop that hands a failed attempt to its caller instead of going on
SleepPropagatingFailure ==
    /\ pc = "sleep"
    /\ IF ~attempts[Len(attempts)].ok
       THEN /\ pc' = "push"
            /\ chapters_result' = "Err"
            /\ UNCHANGED chapter_index
       ELSE IF chapter_index + 1 < Len(chapters)
       THEN /\ chapter_index' = chapter_index + 1
            /\ pc' = "chapter"
            /\ UNCHANGED chapters_result
       ELSE /\ pc' = "push"
            /\ chapters_result' = "Ok"
            /\ UNCHANGED chapter_index
    /\ UNCHANGED <<result, title, author, cover_image_path, volumes, volume_index,
                   volume_title, volume_cover_path, chapters, attempts,
                   files, dirs, requests, faults, dir_order, content_opf, toc_ncx, zip,
                   zip_result, call>>

\* the 500 ms delay that ends every iteration; after the last one the loop
\* is over and fetch_and_process_chapters returns Ok(())
Sleep ==
    /\ pc = "sleep"
    /\ IF chapter_index + 1 < Len(chapters)
       THEN /\ chapter_index' = chapter_index + 1
            /\ pc' = "chapter"
            /\ UNCHANGED chapters_result
       ELSE /\ pc' = "push"
            /\ chapters_result' = "Ok"
            /\ UNCHANGED chapter_index
    /\ UNCHANGED <<result, title, author, cover_image_path, volumes, volume_index,
                   volume_title, volume_cover_path, chapters, attempts,
                   files, dirs, requests, faults, dir_order, content_opf, toc_ncx, zip,
                   zip_result, call>>

\* volumes.push(Volume { .. }) at the end of the list item
PushVolume ==
    /\ pc = "push"
    /\ volumes' = Append(volumes, [title |-> volume_title,
                                   cover_image_path |-> volume_cover_path,
                                   chapters |-> chapters])
    /\ volume_index' = volume_index + 1
    /\ pc' = "volumes"
    /\ UNCHANGED <<result, title, author, cover_image_path, volume_title,
                   volume_cover_path, chapters, chapter_index, attempts, chapters_result,
                   files, dirs, requests, faults, dir_order, content_opf, toc_ncx, zip,
                   zip_result, call>>

(***************************************************************************)
(* generate_epub_metadata, as the sequence of its filesystem calls; each    *)
(* one may fail and `?` then returns Err with the earlier ones done.        *)
(***************************************************************************)
Step(what, newdirs, written) == [what |-> what, newdirs |-> newdirs, written |-> written]

\* lines 311-317: the src of the img of the cover document, "../../images/"
\* followed by the file name of the volume's cover_image_path
VolumeCoverImgSrc(volume) ==
    <<"..", "..", "images", FileName(volume.cover_image_path)>>

\* a cover chapter that is declared but never written
VolumeCoverChapterDirOnly(i) ==
    <<Step("mkdir", DirsOf(TextVolumeDir(i - 1)), {})>>

\* generate_volume_cover_chapter for volume i (1-based): create_dir_all, fs::write
VolumeCoverChapterSteps(i) ==
    <<Step("mkdir", DirsOf(TextVolumeDir(i - 1)), {}),
      Step("chapter0", {}, {Append(TextVolumeDir(i - 1), "chapter_000.xhtml")})>>

MetadataSteps(vols) ==
    <<Step("mkdir", DirsOf(<<"META-INF">>), {}),
      Step("mkdir", DirsOf(<<"OEBPS">>), {}),
      Step("mimetype", {}, {<<"mimetype">>}),
      Step("container", {}, {<<"META-INF", "container.xml">>}),
      Step("opf", {}, {<<"OEBPS", "content.opf">>}),
      Step("ncx", {}, {<<"OEBPS", "toc.ncx">>})>>
    \o Concat([i \in 1..Len(vols) |->
          IF IsSome(vols[i].cover_image_path) THEN VolumeCoverChapterSteps(i) ELSE <<>>])

\* a job that only logs a failure of generate_epub_metadata and goes on to compress
GenerateEpubMetadataIgnoringFailure ==
    /\ pc = "volumes"
    /\ \E steps \in {MetadataSteps(volumes)} :
       \E fail_at \in 0..Len(steps) :
       \E done \in {IF fail_at = 0 THEN steps ELSE SubSeq(steps, 1, fail_at - 1)} :
          LET did(what) == \E k \in 1..Len(done) : done[k].what = what
          IN  /\ Allowed(Bad(fail_at = 0))
              /\ faults' = Spend(Bad(fail_at = 0))
              /\ files' = files \cup UNION {done[k].written : k \in 1..Len(done)}
              /\ dirs' = dirs \cup UNION {done[k].newdirs : k \in 1..Len(done)}
              /\ content_opf' = IF did("opf")
                                THEN <<[manifest |-> Manifest(volumes, files),
                                        spine |-> Spine(volumes)]>>
                                ELSE None
              /\ toc_ncx' = IF did("ncx") THEN <<NavMap(volumes)>> ELSE None
              /\ pc' = "compress"
              /\ UNCHANGED result
    /\ UNCHANGED <<title, author, cover_image_path, volumes, volume_index, volume_title,
                   volume_cover_path, chapters, chapter_index, attempts, chapters_result,
                   requests, dir_order, zip, zip_result, call>>

\* the tail of parse_novel_info: generate_epub_metadata(..)? ; fail_at = 0: Ok
GenerateEpubMetadata ==
    /\ pc = "volumes"
    /\ \E steps \in {MetadataSteps(volumes)} :
       \E fail_at \in 0..Len(steps) :
       \E done \in {IF fail_at = 0 THEN steps ELSE SubSeq(steps, 1, fail_at - 1)} :
          LET did(what) == \E k \in 1..Len(done) : done[k].what = what
          IN  /\ Allowed(Bad(fail_at = 0))
              /\ faults' = Spend(Bad(fail_at = 0))
              /\ files' = files \cup UNION {done[k].written : k \in 1..Len(done)}
              /\ dirs' = dirs \cup UNION {done[k].newdirs : k \in 1..Len(done)}
              /\ content_opf' = IF did("opf")
                                THEN <<[manifest |-> Manifest(volumes, files),
                                        spine |-> Spine(volumes)]>>
                                ELSE None
              /\ toc_ncx' = IF did("ncx") THEN <<NavMap(volumes)>> ELSE None
              /\ IF fail_at = 0
                 THEN pc' = "compress" /\ UNCHANGED result
                 ELSE pc' = "done" /\ result' = "Err"
    /\ UNCHANGED <<title, author, cover_image_path, volumes, volume_index, volume_title,
                   volume_cover_path, chapters, chapter_index, attempts, chapters_result,
                   requests, dir_order, zip, zip_result, call>>

(***************************************************************************)
(* compress_epub.                                                          *)
(***************************************************************************)
RECURSIVE Reverse(_)
Reverse(s) == IF s = <<>> THEN <<>> ELSE Append(Reverse(Tail(s)), Head(s))

\* the order in which read_dir hands out the entries of a directory: the
\* sequence `base` turned by dir_order.rot and reversed if dir_order.rev
Turned(base) ==
    [k \in 1..Len(base) |-> base[((k - 1 + dir_order.rot) % Len(base)) + 1]]

DirOrder(names) ==
    IF dir_order.rev THEN Reverse(Turned(ReadDirOrder(names)))
    ELSE Turned(ReadDirOrder(names))

Member(name, method) == [name |-> name, method |-> method]

\* add_directory_to_zip: depth first, the root mimetype skipped, every other
\* file added under base_path/file_name with the default options
RECURSIVE AddDirectoryToZip(_, _, _)

\* a walk that adds the root mimetype like any other file
AddEntriesWithMimetype(base_path, tree_files, tree_dirs, entries) ==
    Concat([k \in 1..Len(entries) |->
        IF Append(base_path, entries[k]) \in tree_dirs
        THEN AddDirectoryToZip(Append(base_path, entries[k]), tree_files, tree_dirs)
        ELSE <<Member(Append(base_path, entries[k]), "Default")>>])

\* the loop over the entries of the directory base_path
AddEntries(base_path, tree_files, tree_dirs, entries) ==
    Concat([k \in 1..Len(entries) |->
        IF entries[k] = "mimetype" /\ base_path = <<>> THEN <<>>
        ELSE IF Append(base_path, entries[k]) \in tree_dirs
             THEN AddDirectoryToZip(Append(base_path, entries[k]), tree_files, tree_dirs)
             ELSE <<Member(Append(base_path, entries[k]), "Default")>>])

AddDirectoryToZip(base_path, tree_files, tree_dirs) ==
    AddEntries(base_path, tree_files, tree_dirs,
        DirOrder({q[Len(base_path) + 1] :
                    q \in {q \in tree_files \cup tree_dirs :
                              /\ Len(q) > Len(base_path)
                              /\ SubSeq(q, 1, Len(base_path)) = base_path}}))

\* an archive to which mimetype is added after the directory walk
ZipMembersByWalk(tree_files, tree_dirs) ==
    AddDirectoryToZip(<<>>, tree_files, tree_dirs)
    \o (IF <<"mimetype">> \in tree_files THEN <<Member(<<"mimetype">>, "Stored")>> ELSE <<>>)

\* the members in the order compress_epub starts them
ZipMembers(tree_files, tree_dirs) ==
    (IF <<"mimetype">> \in tree_files THEN <<Member(<<"mimetype">>, "Stored")>> ELSE <<>>)
    \o AddDirectoryToZip(<<>>, tree_files, tree_dirs)

\* a cleanup that runs whenever compress_epub is left
RemovedOnExit(tree, fail_at, rm_ok) == IF rm_ok THEN {} ELSE tree

\* lines 349-376: what is left of the working tree: remove_dir_all is reached
\* only when nothing before it returned through `?`
AfterCompress(tree, fail_at, rm_ok) == IF fail_at = 0 /\ rm_ok THEN {} ELSE tree

\* compress_epub, and the match on its result that ends parse_novel_info.
\* fail_at: 0 none, 1 File::create, 1 + k the k-th member (start_file, read or
\* write_all), Len + 2 zip.finish.  remove_dir_all failing is only logged.
CompressEpub ==
    /\ pc = "compress"
    /\ \E members \in {ZipMembers(files, dirs)} :
       \E fail_at \in 0..(Len(members) + 2), rm_ok \in BOOLEAN :
          /\ fail_at # 0 => rm_ok
          /\ Allowed(Bad(fail_at = 0) + Bad(rm_ok))
          /\ faults' = Spend(Bad(fail_at = 0) + Bad(rm_ok))
          /\ zip' = IF fail_at = 0 THEN <<[members |-> members, finished |-> TRUE]>>
                    ELSE IF fail_at = 1 THEN None
                    ELSE <<[members |-> SubSeq(members, 1, fail_at - 2),
                            finished |-> FALSE]>>
          /\ zip_result' = IF fail_at = 0 THEN "Ok" ELSE "Err"
          /\ files' = AfterCompress(files, fail_at, rm_ok)
          /\ dirs' = AfterCompress(dirs, fail_at, rm_ok)
    /\ result' = "Ok"
    /\ pc' = "done"
    /\ UNCHANGED <<title, author, cover_image_path, volumes, volume_index, volume_title,
                   volume_cover_path, chapters, chapter_index, attempts, chapters_result,
                   requests, dir_order, content_opf, toc_ncx, call>>

Next ==
    \/ FetchNovelInfo
    \/ NovelCover
    \/ SkipVolumeItem
    \/ BeginVolume
    \/ FetchChapter
    \/ Sleep
    \/ PushVolume
    \/ GenerateEpubMetadata
    \/ CompressEpub

Spec == Init /\ [][Next]_vars

(***************************************************************************)
(* fetch_and_process_chapters on its own: one volume's chapter list, as     *)
(* parse_volume_chapters built it, on the tree parse_novel_info prepared,   *)
(* with any number of failures.                                            *)
(***************************************************************************)
Idle ==
    /\ result = "none"
    /\ title = "Novel"
    /\ author = "Author"
    /\ cover_image_path = None
    /\ requests = 0
    /\ content_opf = None
    /\ toc_ncx = None
    /\ zip = None
    /\ zip_result = "none"

InitLoop ==
    /\ Idle
    /\ pc = "chapter"
    /\ faults = "any"
    /\ dir_order = [rot |-> 0, rev |-> FALSE]
    /\ volumes = <<>>
    /\ volume_index \in 0..(MaxVolumes - 1)
    /\ volume_title \in VolumeTitles
    /\ volume_cover_path = None
    /\ \E hints \in HintLists \ {<<>>} :
          chapters = [k \in 1..Len(hints) |-> NewChapter(hints[k])]
    /\ chapter_index = 0
    /\ attempts = <<>>
    /\ chapters_result = "none"
    /\ files = {}
    /\ dirs = DirsOf(ImagesDir)
    /\ call = None

NextLoop ==
    \/ FetchChapter
    \/ Sleep

SpecLoop == InitLoop /\ [][NextLoop]_vars

(***************************************************************************)
(* generate_epub_metadata on its own: the novel_info and the tree that a    *)
(* crawl hands to it.  A crawl is drawn as a shape (which list items were   *)
(* skipped, which volumes got a cover, which chapters carried the           *)
(* illustration hint, which fetches succeeded) and built with the crawl's   *)
(* own operators.                                                          *)
(***************************************************************************)
ChapterShapes == [has_illustrations : BOOLEAN, fetched : BOOLEAN]

\* the lists of n volume shapes with at most `budget` chapters in all
RECURSIVE VolumeShapes(_, _)
VolumeShapes(n, budget) ==
    IF n = 0 THEN {<<>>}
    ELSE UNION {
            {<<[has_cover |-> c, chapters |-> cs]>> \o rest :
                c \in BOOLEAN, cs \in [1..k -> ChapterShapes],
                rest \in VolumeShapes(n - 1, budget - k)} :
            k \in 0..budget}

OkEnv(chapter_paragraphs) ==
    [page |-> "ok", dir_ok |-> TRUE,
     outs |-> [k \in 1..Len(chapter_paragraphs) |->
                 [i \in 1..Len(chapter_paragraphs[k]) |-> "ok"]],
     textdir_ok |-> TRUE, write_ok |-> TRUE]

\* what fetch_chapter_content leaves for a chapter of the given shape: a
\* fetched chapter as with every call succeeding, a failed one as with the
\* last call (fs::write of the document) failing
ShapeBody(shape) ==
    IF shape.has_illustrations THEN << <<Img(Url("a", "jpg"), "x")>> >> ELSE NoImgParagraphs

CrawledChapter(shape, list_index, j) ==
    FetchChapterContent(list_index, j - 1, shape.has_illustrations, ShapeBody(shape),
                        [OkEnv(ShapeBody(shape)) EXCEPT !.write_ok = shape.fetched])

CrawledCover(shape, t) ==
    IF shape.has_cover
    THEN DownloadVolumeCoverImage(Url("c", "png"), t, TRUE, "ok")
    ELSE [ok |-> TRUE, path |-> None, written |-> {}, nreq |-> 0, newdirs |-> {}]

\* novel_info.volumes and the tree, from what each volume's cover download
\* and chapter fetches returned: got[i] = [cover, fetched]
Collected(shapes, t, got) ==
    [volumes |->
        [i \in 1..Len(shapes) |->
            [title |-> t,
             cover_image_path |-> got[i].cover.path,
             chapters |-> [j \in 1..Len(shapes[i].chapters) |->
                 [has_illustrations |-> shapes[i].chapters[j].has_illustrations,
                  xhtml_path |-> got[i].fetched[j].xhtml_path]]]],
     files |-> UNION {got[i].cover.written : i \in 1..Len(shapes)}
               \cup UNION {UNION {got[i].fetched[j].written :
                                    j \in 1..Len(shapes[i].chapters)} :
                             i \in 1..Len(shapes)},
     dirs |-> UNION {got[i].cover.newdirs : i \in 1..Len(shapes)}
              \cup UNION {DirsOf(ImagesDir) :
                            i \in {i \in 1..Len(shapes) : shapes[i].chapters # <<>>}}
              \cup UNION {UNION {got[i].fetched[j].newdirs :
                                    j \in 1..Len(shapes[i].chapters)} :
                             i \in 1..Len(shapes)}]

\* the state parse_novel_info is in after its volume loop, for a crawl of
\* the given shape whose first `offset` list items were skipped
Crawl(shapes, offset, t) ==
    Collected(shapes, t,
        [i \in 1..Len(shapes) |->
            [cover |-> CrawledCover(shapes[i], t),
             fetched |-> [j \in 1..Len(shapes[i].chapters) |->
                 CrawledChapter(shapes[i].chapters[j], offset + i - 1, j)]]])

\* parse_novel_info after its volume loop, for the crawls of at most `budget` chapters
Crawled(budget) ==
    /\ Idle
    /\ pc = "volumes"
    /\ \E n \in 0..MaxVolumes, offset \in 0..1, t \in VolumeTitles :
       \E shapes \in VolumeShapes(n, budget) :
       \E crawl \in {Crawl(shapes, offset, t)} :
          /\ n = 0 => offset = 0
          /\ volumes = crawl.volumes
          /\ files = crawl.files
          /\ dirs = crawl.dirs
          /\ volume_index = n + offset
    /\ volume_title = <<>>
    /\ volume_cover_path = None
    /\ chapters = <<>>
    /\ chapter_index = 0
    /\ attempts = <<>>
    /\ chapters_result = "none"
    /\ call = None

InitMeta ==
    /\ Crawled(MaxTotalChapters)
    /\ faults = "none"
    /\ dir_order = [rot |-> 0, rev |-> FALSE]

NextMeta == GenerateEpubMetadata

SpecMeta == InitMeta /\ [][NextMeta]_vars

(***************************************************************************)
(* compress_epub on the trees generate_epub_metadata leaves, under every    *)
(* order read_dir may hand out the entries of a directory, with at most one *)
(* failure.                                                                *)
(***************************************************************************)
DirOrders == [rot : 0..2, rev : BOOLEAN]

InitZip ==
    /\ Crawled(1)
    /\ faults = "one"
    /\ dir_order \in DirOrders

NextZip ==
    \/ GenerateEpubMetadata
    \/ CompressEpub

SpecZip == InitZip /\ [][NextZip]_vars

(***************************************************************************)
(* fetch_chapter_content on its own: one call on a scraped page, with any   *)
(* outcome of its request, its downloads and its filesystem calls.          *)
(***************************************************************************)
Tags == {Img(Url("a", "jpg"), "x"), Img(Url("b", "webp"), "y"), Img(NoSrc, "z")}

\* the lists of n paragraphs with at most `budget` img elements in all
RECURSIVE ParagraphLists(_, _)
ParagraphLists(n, budget) ==
    IF n = 0 THEN {<<>>}
    ELSE UNION {
            {<<p>> \o rest : p \in [1..k -> Tags], rest \in ParagraphLists(n - 1, budget - k)} :
            k \in 0..budget}

ChapterPages == ParagraphLists(1, MaxImgs) \cup ParagraphLists(2, MaxImgs)

InitChapter ==
    /\ Idle
    /\ pc = "call"
    /\ faults = "any"
    /\ dir_order = [rot |-> 0, rev |-> FALSE]
    /\ volumes = <<>>
    /\ volume_index = 0
    /\ volume_title \in VolumeTitles
    /\ volume_cover_path = None
    /\ chapters = <<>>
    /\ chapter_index = 0
    /\ attempts = <<>>
    /\ chapters_result = "none"
    /\ files = {}
    /\ dirs = DirsOf(ImagesDir)
    /\ \E has_illustrations \in BOOLEAN, chapter_paragraphs \in ChapterPages :
          call = <<[has_illustrations |-> has_illustrations,
                    paragraphs |-> chapter_paragraphs,
                    env |-> None, result |-> None]>>

\* one call of fetch_chapter_content(chapter_url, volume_index, chapter_index, ..)
FetchChapterCall ==
    /\ pc = "call"
    /\ \E env \in ChapterEnvs(call[1].has_illustrations, call[1].paragraphs) :
       \E r \in {FetchChapterContent(volume_index, chapter_index,
                                     call[1].has_illustrations, call[1].paragraphs, env)} :
              /\ call' = <<[call[1] EXCEPT !.env = <<env>>, !.result = <<r>>]>>
              /\ files' = files \cup r.written
              /\ dirs' = dirs \cup r.newdirs
              /\ requests' = requests + r.nreq
    /\ pc' = "done"
    /\ UNCHANGED <<result, title, author, cover_image_path, volumes, volume_index,
                   volume_title, volume_cover_path, chapters, chapter_index, attempts,
                   chapters_result, faults, dir_order, content_opf, toc_ncx, zip, zip_result>>

NextChapter == FetchChapterCall

SpecChapter == InitChapter /\ [][NextChapter]_vars

(***************************************************************************)
(* One cover download of parse_novel_info on its own: the novel cover or a  *)
(* volume cover, for a cover URL of the listing (the placeholder included)  *)
(* on a tree that may already hold the images directory and a cover.        *)
(***************************************************************************)
CoverCallUrls ==
    {Url("nocover", "jpg"), Url("nocover", ""), Url("c", "png"), Url("c", ""), Url("d", "jpg")}

CoverTrees ==
    {[files |-> {}, dirs |-> {}],
     [files |-> {}, dirs |-> DirsOf(<<"OEBPS">>)],
     [files |-> {}, dirs |-> DirsOf(ImagesDir)],
     [files |-> {<<"OEBPS", "images", "cover.png">>}, dirs |-> DirsOf(ImagesDir)]}

InitCover ==
    /\ Idle
    /\ pc = "cover_call"
    /\ faults = "any"
    /\ dir_order = [rot |-> 0, rev |-> FALSE]
    /\ volumes = <<>>
    /\ volume_index = 0
    /\ volume_title \in VolumeTitles
    /\ volume_cover_path = None
    /\ chapters = <<>>
    /\ chapter_index = 0
    /\ attempts = <<>>
    /\ chapters_result = "none"
    /\ \E tree \in CoverTrees, kind \in {"novel", "volume"}, image_url \in CoverCallUrls :
          /\ files = tree.files
          /\ dirs = tree.dirs
          /\ call = <<[kind |-> kind, image_url |-> image_url, files_before |-> tree.files,
                       env |-> None, common |-> None, result |-> None]>>

\* what download_cover_image_common returned, if the call got that far
CommonCall(image_url, filename, e) ==
    IF e.dir_ok THEN <<DownloadCoverImageCommon(image_url, filename, TRUE, e.outcome)>> ELSE None

\* the novel cover: match download_cover_image(..) { Ok(Some(path)) => cover_image_path
\* = Some(path), Ok(None) and Err(e) => println }
NovelCoverCall ==
    /\ pc = "cover_call"
    /\ call[1].kind = "novel"
    /\ \E e \in CoverEnvs(call[1].image_url) :
       \E r \in {DownloadCoverImage(call[1].image_url, e.dir_ok, e.outcome)} :
          /\ cover_image_path' = r.path
          /\ files' = files \cup r.written
          /\ dirs' = dirs \cup r.newdirs
          /\ requests' = requests + r.nreq
          /\ call' = <<[call[1] EXCEPT
                          !.env = <<e>>,
                          !.common = CommonCall(call[1].image_url,
                                                "cover." \o Extension(call[1].image_url), e),
                          !.result = <<r>>]>>
    /\ pc' = "done"
    /\ UNCHANGED <<result, title, author, volumes, volume_index, volume_title,
                   volume_cover_path, chapters, chapter_index, attempts, chapters_result,
                   faults, dir_order, content_opf, toc_ncx, zip, zip_result>>

\* a volume cover: match download_volume_cover_image(..) { Ok(path) =>
\* volume_cover_path = path, Err(e) => println }
VolumeCoverCall ==
    /\ pc = "cover_call"
    /\ call[1].kind = "volume"
    /\ \E e \in CoverEnvs(call[1].image_url) :
       \E r \in {DownloadVolumeCoverImage(call[1].image_url, volume_title, e.dir_ok,
                                          e.outcome)} :
          /\ volume_cover_path' = r.path
          /\ files' = files \cup r.written
          /\ dirs' = dirs \cup r.newdirs
          /\ requests' = requests + r.nreq
          /\ call' = <<[call[1] EXCEPT
                          !.env = <<e>>,
                          !.common = CommonCall(call[1].image_url,
                                                SafeVolumeTitle(volume_title) \o "."
                                                    \o Extension(call[1].image_url), e),
                          !.result = <<r>>]>>
    /\ pc' = "done"
    /\ UNCHANGED <<result, title, author, cover_image_path, volumes, volume_index,
                   volume_title, chapters, chapter_index, attempts, chapters_result,
                   faults, dir_order, content_opf, toc_ncx, zip, zip_result>>

NextCover ==
    \/ NovelCoverCall
    \/ VolumeCoverCall

SpecCover == InitCover /\ [][NextCover]_vars

(***************************************************************************)
(* download_illustration on its own: two calls with the same volume index,  *)
(* chapter index and illustration number for two different URLs.            *)
(***************************************************************************)
IllustrationUrls == {Url("a", "jpg"), Url("b", "jpg"), Url("b", "webp"), Url("b", "")}

InitIllustration ==
    /\ Idle
    /\ pc = "illustration"
    /\ faults = "any"
    /\ dir_order = [rot |-> 0, rev |-> FALSE]
    /\ volumes = <<>>
    /\ volume_index \in 0..(MaxVolumes - 1)
    /\ volume_title \in VolumeTitles
    /\ volume_cover_path = None
    /\ chapters = <<>>
    /\ chapter_index \in 0..(MaxChapters - 1)
    /\ attempts = <<>>
    /\ chapters_result = "none"
    /\ files = {}
    /\ dirs = DirsOf(ChapterImgDir(volume_index, chapter_index))
    /\ \E illustration_number \in 1..MaxImgs, u1 \in IllustrationUrls, u2 \in IllustrationUrls :
          /\ u1 # u2
          /\ call = <<[illustration_number |-> illustration_number,
                       urls |-> <<u1, u2>>, results |-> <<>>]>>

\* the next of the two calls download_illustration(image_url, dir,
\* illustration_number, volume_index, chapter_index)
DownloadIllustrationCall ==
    /\ pc = "illustration"
    /\ \E outcome \in Outcomes :
       \E r \in {DownloadIllustration(call[1].urls[Len(call[1].results) + 1],
                                      call[1].illustration_number,
                                      volume_index, chapter_index, outcome)} :
          /\ call' = <<[call[1] EXCEPT !.results = Append(@, r)]>>
          /\ files' = files \cup r.written
          /\ requests' = requests + r.nreq
    /\ pc' = IF Len(call[1].results) + 1 = Len(call[1].urls) THEN "done" ELSE "illustration"
    /\ UNCHANGED <<result, title, author, cover_image_path, volumes, volume_index,
                   volume_title, volume_cover_path, chapters, chapter_index, attempts,
                   chapters_result, dirs, faults, dir_order, content_opf, toc_ncx, zip,
                   zip_result>>

NextIllustration == DownloadIllustrationCall

SpecIllustration == InitIllustration /\ [][NextIllustration]_vars

(***************************************************************************)
(* The head of the package document on its own: two conversion runs, each   *)
(* for a novel id, a parsed title and a local date, write their metadata    *)
(* block (epub.rs lines 44-90) and the uid of their navigation document.    *)
(***************************************************************************)
MaxNovelId == 12

NovelIds == 1..MaxNovelId
Dates == {"2025-01-01", "2025-01-02"}

\* "docln:" followed by format!("{}", _novel_id)
PackageIdentifier(novel_id) == "docln:" \o ToString(novel_id)

InitIdentifier ==
    /\ Idle
    /\ pc = "identifier"
    /\ faults = "none"
    /\ dir_order = [rot |-> 0, rev |-> FALSE]
    /\ volumes = <<>>
    /\ volume_index = 0
    /\ volume_title = <<>>
    /\ volume_cover_path = None
    /\ chapters = <<>>
    /\ chapter_index = 0
    /\ attempts = <<>>
    /\ chapters_result = "none"
    /\ files = {}
    /\ dirs = {}
    /\ \E id1 \in NovelIds, id2 \in NovelIds, t1 \in {"", "Novel"}, t2 \in {"", "Novel"} :
          call = <<[novel_ids |-> <<id1, id2>>, titles |-> <<t1, t2>>, written |-> <<>>]>>

\* a package head whose identifier is drawn anew in every run
WritePackageHeadWithFreshIdentifier ==
    /\ pc = "identifier"
    /\ \E date \in Dates, fresh \in {"urn:uuid:1", "urn:uuid:2"} :
          call' = <<[call[1] EXCEPT !.written =
                        Append(@, [identifier |-> fresh,
                                   title |-> call[1].titles[Len(call[1].written) + 1],
                                   date |-> date,
                                   uid |-> fresh])]>>
    /\ pc' = IF Len(call[1].written) + 1 = Len(call[1].novel_ids) THEN "done" ELSE "identifier"
    /\ UNCHANGED <<result, title, author, cover_image_path, volumes, volume_index,
                   volume_title, volume_cover_path, chapters, chapter_index, attempts,
                   chapters_result, files, dirs, requests, faults, dir_order, content_opf,
                   toc_ncx, zip, zip_result>>

\* the next run writes dc:identifier, dc:title and dc:date (the local clock's
\* day) of content.opf and dtb:uid of toc.ncx
WritePackageHead ==
    /\ pc = "identifier"
    /\ \E date \in Dates :
          call' = <<[call[1] EXCEPT !.written =
                        Append(@, [identifier |->
                                       PackageIdentifier(call[1].novel_ids[Len(call[1].written) + 1]),
                                   title |-> call[1].titles[Len(call[1].written) + 1],
                                   date |-> date,
                                   uid |->
                                       PackageIdentifier(call[1].novel_ids[Len(call[1].written) + 1])])]>>
    /\ pc' = IF Len(call[1].written) + 1 = Len(call[1].novel_ids) THEN "done" ELSE "identifier"
    /\ UNCHANGED <<result, title, author, cover_image_path, volumes, volume_index,
                   volume_title, volume_cover_path, chapters, chapter_index, attempts,
                   chapters_result, files, dirs, requests, faults, dir_order, content_opf,
                   toc_ncx, zip, zip_result>>

NextIdentifier == WritePackageHead

SpecIdentifier == InitIdentifier /\ [][NextIdentifier]_vars

(***************************************************************************)
(* Properties of the package document and the navigation document          *)
(* (SpecMeta).                                                             *)
(***************************************************************************)
Covered == {i \in DOMAIN volumes : IsSome(volumes[i].cover_image_path)}
Surviving(i) == {j \in DOMAIN volumes[i].chapters : IsSome(volumes[i].chapters[j].xhtml_path)}
Failed(i) == DOMAIN volumes[i].chapters \ Surviving(i)

\* C1: every idref of the spine written by generate_epub_metadata is the id
\* of exactly one item of the manifest written with it: none is missing from
\* the manifest, none matches two items.
C1_SpineIdrefsResolve ==
    IsSome(content_opf) =>
        LET opf == content_opf[1] IN
        \A k \in DOMAIN opf.spine :
            Cardinality({m \in DOMAIN opf.manifest : opf.manifest[m].id = opf.spine[k]}) = 1

\* a package document whose spine holds a volume-cover unit and chapters of
\* two volumes, one of which also lost a chapter
C1_Witness ==
    /\ IsSome(content_opf)
    /\ Len(content_opf[1].spine) >= 3
    /\ Covered # {}
    /\ \E i \in DOMAIN volumes : Surviving(i) # {} /\ Failed(i) # {}
    /\ Cardinality({i \in DOMAIN volumes : Surviving(i) # {}}) = 2

\* the volumes that keep at least one chapter, in their order
WithSurvivors == SelectSeq([i \in DOMAIN volumes |-> i], LAMBDA i : Surviving(i) # {})

\* C4: the navMap has one top-level navPoint per volume with at least one
\* chapter whose xhtml_path is set, in the volumes' order, each with as many
\* children as the volume has such chapters; a volume without one has no
\* navPoint, cover or not.
C4_NavPointCounts ==
    IsSome(toc_ncx) =>
        LET navMap == toc_ncx[1] IN
        /\ Len(navMap) = Cardinality({i \in DOMAIN volumes : Surviving(i) # {}})
        /\ \A n \in DOMAIN navMap :
              /\ navMap[n].volume = WithSurvivors[n]
              /\ Len(navMap[n].children) = Cardinality(Surviving(navMap[n].volume))
        /\ \A i \in DOMAIN volumes :
              Surviving(i) = {} => \A n \in DOMAIN navMap : navMap[n].volume # i

\* a navigation document for a novel with a covered volume that lost all its
\* chapters next to a volume that kept some
C4_Witness ==
    /\ IsSome(toc_ncx)
    /\ \E i \in Covered : Surviving(i) = {} /\ Failed(i) # {}
    /\ \E i \in DOMAIN volumes : Surviving(i) # {} /\ Failed(i) # {}
    /\ Len(toc_ncx[1]) = 1

\* the playOrder values of a navMap in document order
PlayOrders(navMap) ==
    Concat([n \in DOMAIN navMap |->
        <<navMap[n].playOrder>>
        \o [k \in DOMAIN navMap[n].children |-> navMap[n].children[k].playOrder]])

\* C5: read in document order, parents and children interleaved, the
\* playOrder values are 1, 2, .., n for the n navPoints emitted.
C5_PlayOrderDense ==
    IsSome(toc_ncx) =>
        LET orders == PlayOrders(toc_ncx[1]) IN
        orders = [k \in 1..Len(orders) |-> k]

\* two top-level navPoints, the first one with children before the second
C5_Witness ==
    /\ IsSome(toc_ncx)
    /\ Len(toc_ncx[1]) = 2
    /\ Len(toc_ncx[1][1].children) >= 2
    /\ Len(PlayOrders(toc_ncx[1])) >= 4

\* the units of the reading order: <<v, 0>> for a volume with a cover,
\* <<v, c>> for a chapter with a document
Units ==
    {<<i, 0>> : i \in Covered}
        \cup UNION {{<<i, j>> : j \in Surviving(i)} : i \in DOMAIN volumes}
Before(u, w) == u[1] < w[1] \/ (u[1] = w[1] /\ u[2] < w[2])

\* C6: the spine is the volumes in order, each as its cover unit (if and
\* only if the cover is resolved) followed by its surviving chapters by
\* increasing index; its length is covers + chapters with a document.
C6_SpineOrder ==
    IsSome(content_opf) =>
        LET spine == content_opf[1].spine IN
        /\ Len(spine) = Cardinality(Covered)
                        + Cardinality(UNION {{<<i, j>> : j \in Surviving(i)} :
                                                i \in DOMAIN volumes})
        /\ \A k \in DOMAIN spine :
              \E u \in Units :
                 /\ spine[k] = ChapterId(u[1], u[2])
                 /\ Cardinality({w \in Units : Before(w, u)}) = k - 1

\* the two-volume scenario: volume 1 with a cover and two chapters of which
\* one failed, volume 2 without cover and with one chapter; spine length 3
C6_Witness ==
    /\ IsSome(content_opf)
    /\ Len(volumes) = 2
    /\ Covered = {1}
    /\ Len(volumes[1].chapters) = 2
    /\ Cardinality(Surviving(1)) = 1
    /\ Len(volumes[2].chapters) = 1
    /\ Surviving(2) = {1}
    /\ content_opf[1].spine \in {<<"chapter1_0", "chapter1_1", "chapter2_1">>,
                                 <<"chapter1_0", "chapter1_2", "chapter2_1">>}

(***************************************************************************)
(* Properties of the archive (SpecZip).                                    *)
(***************************************************************************)
\* C2: in every archive compress_epub writes, mimetype is the first member
\* added and the only one written Stored; every other member comes after it
\* with the default options.
C2_MimetypeFirstStored ==
    IsSome(zip) =>
        LET members == zip[1].members IN
        /\ zip[1].finished => Len(members) >= 1
        /\ \A k \in DOMAIN members :
              /\ (members[k].name = <<"mimetype">>) <=> (k = 1)
              /\ (members[k].method = "Stored") <=> (k = 1)
              /\ k > 1 => members[k].method = "Default"

\* a finished archive of a tree with images and chapters, made while
\* read_dir hands out the root's entries in another order than the default
C2_Witness ==
    /\ IsSome(zip)
    /\ zip[1].finished
    /\ Len(zip[1].members) >= 6
    /\ dir_order.rot = 1
    /\ dir_order.rev

\* C3: compress_epub removes the working tree only once zip.finish() has
\* succeeded; on every failure (creating the archive, a member, finish) it
\* returns Err and leaves the tree as it was.
C3_TreeKeptOnFailure ==
    [][(pc = "compress" /\ pc' = "done") =>
          /\ (files' # files \/ dirs' # dirs) =>
                (IsSome(zip') /\ zip'[1].finished /\ zip_result' = "Ok")
          /\ (zip' = None \/ ~zip'[1].finished) =>
                (zip_result' = "Err" /\ files' = files /\ dirs' = dirs)
          /\ zip_result' = "Err" => (zip' = None \/ ~zip'[1].finished)]_vars

\* compress_epub has failed in zip.finish(): every member is in the archive
\* and the tree is still there
C3_Witness ==
    /\ zip_result = "Err"
    /\ IsSome(zip)
    /\ ~zip[1].finished
    /\ zip[1].members = ZipMembers(files, dirs)
    /\ <<"OEBPS", "content.opf">> \in files

(***************************************************************************)
(* Properties of the whole job (Spec).                                     *)
(***************************************************************************)
Manifested == content_opf[1].manifest

\* the ids generate_epub_metadata gives to the illustrations it lists for
\* chapter j of volume i
IllustrationIds(i, j) ==
    {"vol" \o ToString(i) \o "_chap" \o ToString(j) \o "_img" \o stem \o ext :
        stem \in FileStems, ext \in {".jpg", ".jpeg", ".png"}}

\* C7: a chapter whose fetch failed (xhtml_path None) contributes no manifest
\* item, no spine itemref and no navPoint, and the other chapters of its
\* volume keep the ids and paths of their own index.
C7_FailedChapterAbsent ==
    (IsSome(content_opf) /\ IsSome(toc_ncx)) =>
        \A i \in DOMAIN volumes :
            /\ \A j \in Failed(i) :
                  /\ \A m \in DOMAIN Manifested :
                        /\ Manifested[m].id # ChapterId(i, j)
                        /\ Manifested[m].id \notin IllustrationIds(i, j)
                  /\ \A k \in DOMAIN content_opf[1].spine :
                        content_opf[1].spine[k] # ChapterId(i, j)
            /\ \A n \in DOMAIN toc_ncx[1] :
                  toc_ncx[1][n].volume = i =>
                      Len(toc_ncx[1][n].children) = Cardinality(Surviving(i))
            /\ \A j \in Surviving(i) :
                  /\ \E m \in DOMAIN Manifested :
                        /\ Manifested[m].id = ChapterId(i, j)
                        /\ Manifested[m].href = volumes[i].chapters[j].xhtml_path
                        /\ FileName(Manifested[m].href) = ChapterFileName(j - 1)
                  /\ \E k \in DOMAIN content_opf[1].spine :
                        content_opf[1].spine[k] = ChapterId(i, j)

ContentDocuments ==
    {m \in DOMAIN Manifested : Manifested[m].media_type = "application/xhtml+xml"}

\* C8: when generate_epub_metadata has returned Ok, every content document
\* of the manifest (chapter units, chapter_000 cover units) is there once,
\* each unit of the novel has its item, and the href is the OEBPS-relative
\* path text/volume_VVV/chapter_CCC.xhtml of a file of the working tree.
C8_ContentDocumentsExist ==
    pc = "compress" =>
        /\ \A m \in ContentDocuments :
              /\ \A m2 \in DOMAIN Manifested :
                    (Manifested[m2].id = Manifested[m].id
                        \/ Manifested[m2].href = Manifested[m].href) => m2 = m
              /\ <<"OEBPS">> \o Manifested[m].href \in files
              /\ Len(Manifested[m].href) = 3
              /\ Manifested[m].href[1] = "text"
              /\ \E v \in 0..MaxVolumes, c \in 0..MaxChapters :
                    /\ Manifested[m].href[2] = "volume_" \o Pad3(v)
                    /\ Manifested[m].href[3] = "chapter_" \o Pad3(c) \o ".xhtml"
        /\ \A i \in DOMAIN volumes :
              /\ i \in Covered => \E m \in ContentDocuments : Manifested[m].id = ChapterId(i, 0)
              /\ \A j \in Surviving(i) :
                    \E m \in ContentDocuments : Manifested[m].id = ChapterId(i, j)

\* metadata written for a volume that follows a skipped list item, with a
\* cover and a chapter: its cover unit and its chapter are in different
\* directories of the tree
C8_Witness ==
    /\ pc = "compress"
    /\ Len(volumes) = 1
    /\ volume_index = 2
    /\ Covered = {1}
    /\ Surviving(1) # {}
    /\ Failed(1) # {}
    /\ <<"OEBPS", "text", "volume_001", "chapter_000.xhtml">> \in files
    /\ \E m \in ContentDocuments : Manifested[m].href[2] = "volume_002"

(***************************************************************************)
(* Properties of the chapter loop (SpecLoop).                              *)
(***************************************************************************)
\* C9: fetch_and_process_chapters attempts every chapter of the volume once,
\* by increasing index, whatever failed before; it never returns Err and
\* always has a next step until it returns Ok; a chapter's xhtml_path is Some
\* if and only if its own attempt succeeded.
C9_EveryChapterAttempted ==
    /\ chapters_result # "Err"
    /\ Len(attempts) <= Len(chapters)
    /\ \A k \in DOMAIN attempts :
          /\ attempts[k].index = k - 1
          /\ IsSome(chapters[k].xhtml_path) <=> attempts[k].ok
    /\ \A k \in DOMAIN chapters \ DOMAIN attempts : chapters[k].xhtml_path = None
    /\ pc \in {"chapter", "sleep"} => (chapters_result = "none" /\ ENABLED NextLoop)
    /\ pc = "push" => (chapters_result = "Ok" /\ Len(attempts) = Len(chapters))

\* the loop has returned for a volume whose first chapter failed and whose
\* last chapter was fetched
C9_Witness ==
    /\ pc = "push"
    /\ Len(chapters) >= 2
    /\ ~attempts[1].ok
    /\ attempts[Len(chapters)].ok
    /\ chapters[1].xhtml_path = None
    /\ IsSome(chapters[Len(chapters)].xhtml_path)

(***************************************************************************)
(* Properties of one chapter render (SpecChapter).                         *)
(***************************************************************************)
Called == pc = "done" /\ IsSome(call) /\ IsSome(call[1].result)

\* the img elements of the page whose download was tried and failed
FailedImages ==
    {<<k, i>> \in (1..Len(call[1].paragraphs)) \X (1..MaxImgs) :
        /\ i <= Len(call[1].paragraphs[k])
        /\ IsUrl(call[1].paragraphs[k][i].src)
        /\ call[1].env[1].outs[k][i] # "ok"}

\* C10: for a chapter with the has_illustrations hint, a failed download of
\* an inline image does not fail download_chapter_illustrations nor the
\* render: the document is produced, and in it the failed image still has
\* its original remote src, unmodified.
C10_FailedImageKeepsRemoteSrc ==
    (/\ Called
     /\ call[1].has_illustrations
     /\ call[1].env[1].page = "ok"
     /\ call[1].env[1].dir_ok
     /\ call[1].env[1].textdir_ok
     /\ call[1].env[1].write_ok) =>
        /\ call[1].result[1].ok
        /\ \A f \in FailedImages :
              call[1].result[1].doc[f[1]][f[2]] = call[1].paragraphs[f[1]][f[2]]

(***************************************************************************)
(* Properties of the image items of the manifest.                          *)
(***************************************************************************)
ItemsWithId(id) == {m \in DOMAIN Manifested : Manifested[m].id = id}

\* C11: the manifest has a novel-cover item if and only if the novel cover
\* was resolved, with the resolved path images/cover.<ext> as its href, and
\* one volume-cover image item per volume with a resolved cover, with that
\* volume's cover_image_path as its href, none for a volume without.
C11_CoverItemsAsResolved ==
    IsSome(content_opf) =>
        /\ Cardinality(ItemsWithId("cover-image")) = IF IsSome(cover_image_path) THEN 1 ELSE 0
        /\ \A m \in ItemsWithId("cover-image") : Manifested[m].href = cover_image_path
        /\ \A i \in DOMAIN volumes :
              LET its == ItemsWithId("volume" \o ToString(i) \o "-cover") IN
              /\ Cardinality(its) = IF i \in Covered THEN 1 ELSE 0
              /\ \A m \in its : Manifested[m].href = volumes[i].cover_image_path

\* the illustration files of the working tree: images/volume_VVV/chapter_CCC/NNN.<ext>
IllustrationFiles ==
    {f \in files : Len(f) = 5 /\ f[1] = "OEBPS" /\ f[2] = "images"}

\* C12: once the package document is written, every illustration persisted
\* under images/volume_VVV/chapter_CCC/ has exactly one manifest item whose
\* href is the file's path relative to OEBPS, whatever its extension.
C12_EveryIllustrationManifested ==
    IsSome(content_opf) =>
        \A f \in IllustrationFiles :
            Cardinality({m \in DOMAIN Manifested : Manifested[m].href = Tail(f)}) = 1

\* the volume and chapter numbers the id formats are compared for
IdNumbers == (1..MaxIdIndex) \X (0..MaxIdIndex)

\* the id formats never give one id to two different units, also where the
\* digits of a volume number and of a chapter number could run together
\* (chapter1_11 and chapter11_1)
IdFormatsInjective ==
    \A u \in IdNumbers, w \in IdNumbers :
        /\ ChapterId(u[1], u[2]) = ChapterId(w[1], w[2]) => u = w
        /\ IllustrationId(u[1], u[2], "001.jpg") = IllustrationId(w[1], w[2], "001.jpg") => u = w
        /\ VolumeCoverId(u[1]) = VolumeCoverId(w[1]) => u[1] = w[1]
        /\ ChapterId(u[1], u[2]) \notin {"ncx", "cover-image", VolumeCoverId(w[1]),
                                        IllustrationId(w[1], w[2], "001.jpg")}
        /\ VolumeCoverId(u[1]) \notin {"ncx", "cover-image",
                                      IllustrationId(w[1], w[2], "001.jpg")}
        /\ IllustrationId(u[1], u[2], "001.jpg") \notin {"ncx", "cover-image"}

\* C13: the ids of the items of a written manifest are pairwise distinct:
\* ncx, cover-image, volume<v>-cover, chapter<v>_<c> (c = 0 for the
\* volume-cover unit, c = chapter index + 1 for a chapter) and the
\* illustration ids never collide, and the formats keep different units
\* apart for larger volume and chapter numbers too.
C13_ManifestIdsDistinct ==
    /\ IdFormatsInjective
    /\ IsSome(content_opf) =>
          \A m \in DOMAIN Manifested, m2 \in DOMAIN Manifested :
              Manifested[m].id = Manifested[m2].id => m = m2

\* a manifest with the fixed items, two volume covers with their cover
\* units, chapters of both volumes and an illustration
C13_Witness ==
    /\ IsSome(content_opf)
    /\ Covered = {1, 2}
    /\ Surviving(1) # {} /\ Surviving(2) # {}
    /\ ItemsWithId(ChapterId(1, 0)) # {} /\ ItemsWithId(ChapterId(1, 1)) # {}
    /\ ItemsWithId(VolumeCoverId(2)) # {}
    /\ \E m \in DOMAIN Manifested : Len(Manifested[m].href) = 4

(***************************************************************************)
(* Properties of the illustrations of one chapter (SpecChapter).           *)
(***************************************************************************)
\* the call got as far as running download_chapter_illustrations to its end
IllustrationsRan ==
    /\ Called
    /\ call[1].has_illustrations
    /\ call[1].env[1].page = "ok"
    /\ call[1].env[1].dir_ok

\* the img elements with a remote src whose download succeeded, as <<paragraph, element>>
Succeeded ==
    {<<k, i>> \in (1..Len(call[1].paragraphs)) \X (1..MaxImgs) :
        /\ i <= Len(call[1].paragraphs[k])
        /\ IsUrl(call[1].paragraphs[k][i].src)
        /\ call[1].env[1].outs[k][i] = "ok"}

\* the sequence numbers of a set of file names NNN.<ext>
ImgExtensions == {Extension(t.src) : t \in {t \in Tags : IsUrl(t.src)}}
NumbersIn(names) ==
    {n \in 1..(MaxImgs + 1) : \E ext \in ImgExtensions : Pad3(n) \o "." \o ext \in names}

\* the names of the files persisted for the chapter, and of the files its
\* document refers to
PersistedNames == {FileName(f) : f \in IllustrationFiles}
ReferencedNames ==
    {FileName(call[1].result[1].doc[u[1]][u[2]].src.path) :
        u \in {u \in (1..Len(call[1].result[1].doc)) \X (1..MaxImgs) :
                  /\ u[2] <= Len(call[1].result[1].doc[u[1]])
                  /\ IsLocal(call[1].result[1].doc[u[1]][u[2]].src)}}

\* C15: the illustration counter of a chapter starts at 1 and advances by 1
\* for each image that resolves and by 0 for each failure: after a chapter
\* with k successes, in any interleaving with failures, it stands at k + 1
\* and the sequence numbers of the persisted files and of the files the
\* document refers to are exactly 1..k.
C15_SequenceNumbersDense ==
    IllustrationsRan =>
        /\ DownloadChapterIllustrations(call[1].paragraphs, call[1].env[1].outs, TRUE,
                                        volume_index, chapter_index).counter
              = Cardinality(Succeeded) + 1
        /\ NumbersIn(PersistedNames) = 1..Cardinality(Succeeded)
        /\ Cardinality(PersistedNames) = Cardinality(Succeeded)
        /\ call[1].result[1].ok =>
              NumbersIn(ReferencedNames) = 1..Cardinality(Succeeded)

\* the page has no img element at all
NoImgElements == \A k \in DOMAIN call[1].paragraphs : call[1].paragraphs[k] = <<>>

\* the same call with the has_illustrations flag unset
Unflagged ==
    FetchChapterContent(volume_index, chapter_index, FALSE, call[1].paragraphs,
                        call[1].env[1])

\* C17: for a chapter flagged has_illustrations whose paragraphs hold no img
\* element, fetch_chapter_content does what it does with the flag unset: the
\* same outcome and document, no request besides the page, and no directory
\* images/volume_VVV/chapter_CCC.
C17_HintWithoutImagesChangesNothing ==
    (Called /\ call[1].has_illustrations /\ NoImgElements) =>
        /\ call[1].result[1].ok = Unflagged.ok
        /\ call[1].result[1].doc = Unflagged.doc
        /\ call[1].result[1].written = Unflagged.written
        /\ requests = 1
        /\ ChapterImgDir(volume_index, chapter_index) \notin dirs

(***************************************************************************)
(* Properties of the path of an illustration (SpecIllustration).           *)
(***************************************************************************)
BothReturned ==
    /\ pc = "done"
    /\ Len(call[1].results) = 2
    /\ call[1].results[1].ok
    /\ call[1].results[2].ok

\* C16, as stated: two calls of download_illustration with the same volume
\* index, chapter index and illustration number return the same path,
\* whatever the two URLs are.
C16_PathIgnoresUrl ==
    BothReturned => call[1].results[1].local_path = call[1].results[2].local_path

\* C16, amended: the returned path is ../../images/volume_VVV/chapter_CCC/
\* NNN.<ext> with VVV, CCC, NNN from the volume index, the chapter index and
\* the illustration number and <ext> the extension of the URL (jpg when it
\* has none); two calls with the same three numbers return the same path if
\* and only if their URLs have the same extension.
C16_PathDependsOnUrlExtensionOnly ==
    BothReturned =>
        /\ \A n \in 1..2 :
              call[1].results[n].local_path
                 = <<"..", "..", "images", "volume_" \o Pad3(volume_index + 1),
                     "chapter_" \o Pad3(chapter_index + 1),
                     Pad3(call[1].illustration_number) \o "."
                        \o Extension(call[1].urls[n])>>
        /\ (call[1].results[1].local_path = call[1].results[2].local_path)
              <=> (Extension(call[1].urls[1]) = Extension(call[1].urls[2]))

\* two different URLs, one without extension and one ending in .jpg, were
\* downloaded under the same numbers and got the same path
C16_Witness ==
    /\ BothReturned
    /\ call[1].urls[1].stem # call[1].urls[2].stem
    /\ call[1].urls[1].ext # call[1].urls[2].ext
    /\ call[1].results[1].local_path = call[1].results[2].local_path
    /\ Cardinality(files) = 1

(***************************************************************************)
(* Properties of one cover download (SpecCover).                           *)
(***************************************************************************)
\* C14: for a cover URL that contains "nocover", download_cover_image_common
\* returns Ok(None) with no request issued and no file written; the call is
\* not an error, and the novel's or volume's cover path is left None with
\* the files of the tree as they were.
C14_SentinelSkipsDownload ==
    (Called /\ ContainsNocover(call[1].image_url)) =>
        /\ call[1].env[1].dir_ok =>
              /\ IsSome(call[1].common)
              /\ call[1].common[1] = [ok |-> TRUE, path |-> None, written |-> {}, nreq |-> 0]
              /\ call[1].result[1].ok
              /\ call[1].result[1].path = None
        /\ requests = 0
        /\ files = call[1].files_before
        /\ cover_image_path = None
        /\ volume_cover_path = None

\* a volume cover with the placeholder URL was resolved on a tree that
\* already holds the novel cover: the resolver was reached and returned None
C14_Witness ==
    /\ Called
    /\ call[1].kind = "volume"
    /\ ContainsNocover(call[1].image_url)
    /\ IsSome(call[1].common)
    /\ call[1].result[1].ok
    /\ files = {<<"OEBPS", "images", "cover.png">>}

(***************************************************************************)
(* Properties of the job's error handling (Spec).                          *)
(***************************************************************************)
\* the illustrations in the tree whose chapter document is not: their
\* chapter's page, directory and downloads succeeded and the call then
\* failed in create_dir_all(volume_dir) or fs::write(xhtml_path), the only
\* calls left, both filesystem calls
OrphanIllustrations ==
    {f \in IllustrationFiles :
        <<"OEBPS", "text", f[3], f[4] \o ".xhtml">> \notin files}

\* C18: a filesystem error is fatal for the whole job.  Once a chapter's
\* document could not be written, the job does nothing but return from the
\* failed call and end in Err: no further chapter or volume is processed, no
\* metadata is written and no archive is produced.
C18_FilesystemErrorIsFatal ==
    OrphanIllustrations # {} =>
        /\ pc \in {"sleep", "done"}
        /\ pc = "done" => result = "Err"
        /\ content_opf = None
        /\ zip = None

\* C19: an archive error is fatal: whenever compress_epub has returned Err,
\* the job (fetch_novel_info / parse_novel_info) ends in Err and never
\* reports success.
C19_ArchiveErrorIsFatal ==
    zip_result = "Err" => (pc = "done" /\ result = "Err")

\* the job returned Err from the head of fetch_novel_info / parse_novel_info:
\* the listing request failed, the title element is absent or the author is
\* empty (the author is set only once all three were passed)
AbortedAtHead == result = "Err" /\ author = ""

NothingWritten ==
    /\ files = {}
    /\ dirs = {}
    /\ requests = 1
    /\ cover_image_path = None
    /\ volumes = <<>>
    /\ content_opf = None
    /\ toc_ncx = None
    /\ zip = None
    /\ zip_result = "none"

C21_TitleAndAuthorNonEmpty ==
    result = "Ok" => (title # "" /\ author # "")

(***************************************************************************)
(* Properties of the package identifier (SpecIdentifier).                  *)
(***************************************************************************)
BothWritten == pc = "done" /\ Len(call[1].written) = 2

FirstSurviving(i) == CHOOSE j \in Surviving(i) : \A j2 \in Surviving(i) : j <= j2

\* C23: every top-level navPoint points at its volume's cover document
\* text/volume_VVV/chapter_000.xhtml (a document of the written tree) when
\* the volume has a resolved cover, and otherwise at the xhtml_path of the
\* volume's first chapter, by index, whose xhtml_path is set.
C23_VolumeTarget ==
    IsSome(toc_ncx) =>
        \A n \in DOMAIN toc_ncx[1] :
            LET i == toc_ncx[1][n].volume IN
            IF i \in Covered
            THEN /\ toc_ncx[1][n].src = <<"text", "volume_" \o Pad3(i), "chapter_000.xhtml">>
                 /\ <<"OEBPS">> \o toc_ncx[1][n].src \in files
            ELSE /\ toc_ncx[1][n].src = volumes[i].chapters[FirstSurviving(i)].xhtml_path
                 /\ <<"OEBPS">> \o toc_ncx[1][n].src \in files

\* a navMap for a covered volume with a chapter, followed by a volume
\* without cover whose first chapter failed and whose second was fetched
C23_Witness ==
    /\ IsSome(toc_ncx)
    /\ Len(toc_ncx[1]) = 2
    /\ Covered = {1}
    /\ Surviving(1) # {}
    /\ Surviving(2) = {2}
    /\ toc_ncx[1][1].src[3] = "chapter_000.xhtml"
    /\ toc_ncx[1][2].src[3] = "chapter_002.xhtml"

(***************************************************************************)
(* Properties of the order of the job's steps (Spec).                      *)
(***************************************************************************)
\* C24: chapter processing is strictly sequential.  A chapter is fetched
\* only at the loop's own position and it is the one after all earlier
\* chapters of the volume have completed; every fetch, failed or not, is
\* followed by the delay; the next chapter starts only out of the delay,
\* during which nothing else happens; a volume is pushed, and the next list
\* item taken, only once all its chapters have completed.
C24_ChaptersStrictlySequential ==
    [][/\ (attempts' # attempts /\ attempts' # <<>>) =>
             /\ pc = "chapter"
             /\ pc' = "sleep"
             /\ Len(attempts) = chapter_index
             /\ Len(attempts') = Len(attempts) + 1
             /\ attempts'[Len(attempts')].index = chapter_index
             /\ chapter_index' = chapter_index
       /\ pc' = "chapter" =>
             \/ pc = "sleep" /\ chapter_index' = chapter_index + 1
                             /\ Len(attempts) = chapter_index + 1
             \/ pc = "volumes" /\ chapter_index' = 0 /\ attempts' = <<>>
       /\ pc = "sleep" =>
             /\ attempts' = attempts
             /\ chapters' = chapters
             /\ files' = files
             /\ requests' = requests
             /\ pc' \in {"chapter", "push"}
       /\ pc' = "push" =>
             \/ pc = "sleep" /\ Len(attempts) = Len(chapters)
             \/ pc = "volumes" /\ chapters' = <<>>
       /\ (volumes' # volumes \/ volume_index' # volume_index) =>
             /\ pc \in {"volumes", "push"}
             /\ Len(attempts) = Len(chapters)
             /\ pc' = "volumes"]_vars

\* the second chapter of the second list item is about to start, after the
\* first one failed and the delay after it has elapsed
C24_Witness ==
    /\ pc = "chapter"
    /\ Len(volumes) = 1
    /\ volume_index = 1
    /\ chapter_index = 1
    /\ Len(attempts) = 1
    /\ ~attempts[1].ok

(***************************************************************************)
(* Properties of the place of a volume cover (Spec).                       *)
(***************************************************************************)
\* C25: a volume's resolved cover image is stored inside that volume's own
\* zero-padded directory images/volume_VVV/, so that the covers of two
\* different volumes are never the same file.
C25_VolumeCoverInOwnDirectory ==
    \A i \in Covered :
        /\ Len(volumes[i].cover_image_path) = 3
        /\ volumes[i].cover_image_path[1] = "images"
        /\ \E v \in 1..MaxVolumes : volumes[i].cover_image_path[2] = "volume_" \o Pad3(v)
        /\ \A k \in Covered : k # i => volumes[k].cover_image_path # volumes[i].cover_image_path

(***************************************************************************)
(* Properties of the rewritten paragraphs of one chapter (SpecChapter).    *)
(***************************************************************************)
\* document order of the img elements <<paragraph, element>>
Precedes(u, w) == u[1] < w[1] \/ (u[1] = w[1] /\ u[2] <= w[2])

\* the img elements of the produced document whose src is a local path
Rewritten ==
    {u \in (1..Len(call[1].result[1].doc)) \X (1..MaxImgs) :
        /\ u[2] <= Len(call[1].result[1].doc[u[1]])
        /\ IsLocal(call[1].result[1].doc[u[1]][u[2]].src)}

\* C26: download_chapter_illustrations returns as many paragraphs as it was
\* given, in their order, and every img element whose download succeeded is
\* rewritten to its own file: the k-th success in document order refers to
\* file number k, every rewritten tag is self-closing, and there are as many
\* rewritten references as persisted files, also when one tag or URL occurs
\* more than once in a paragraph.
C26_EachSuccessRewrittenToItsOwnFile ==
    (IllustrationsRan /\ call[1].result[1].ok) =>
        LET doc == call[1].result[1].doc IN
        /\ Len(doc) = Len(call[1].paragraphs)
        /\ \A k \in DOMAIN doc : Len(doc[k]) = Len(call[1].paragraphs[k])
        /\ \A u \in Succeeded :
              /\ IsLocal(doc[u[1]][u[2]].src)
              /\ doc[u[1]][u[2]].src.path =
                    <<"..", "..", "images", "volume_" \o Pad3(volume_index + 1),
                      "chapter_" \o Pad3(chapter_index + 1),
                      Pad3(Cardinality({w \in Succeeded : Precedes(w, u)})) \o "."
                          \o Extension(call[1].paragraphs[u[1]][u[2]].src)>>
              /\ doc[u[1]][u[2]].alt = call[1].paragraphs[u[1]][u[2]].alt
        /\ \A u \in Rewritten : doc[u[1]][u[2]].closed
        /\ Cardinality(Rewritten) = Cardinality(IllustrationFiles)

(***************************************************************************)
(* Properties of the local image references of the content documents       *)
(* (SpecChapter for the chapter documents, SpecMeta for the cover ones).    *)
(***************************************************************************)
\* a relative reference resolved against the directory of its document
RECURSIVE Resolve(_, _)
Resolve(dir, rel) ==
    IF rel = <<>> THEN dir
    ELSE IF Head(rel) = ".." THEN Resolve(SubSeq(dir, 1, Len(dir) - 1), Tail(rel))
    ELSE Resolve(Append(dir, Head(rel)), Tail(rel))

\* the file download_illustration persisted for the img element u, the
\* n-th success in document order
PersistedFor(u) ==
    Append(ChapterImgDir(volume_index, chapter_index),
           IllustrationName(Cardinality({w \in Succeeded : Precedes(w, u)}),
                            call[1].paragraphs[u[1]][u[2]].src))

\* C27: every local image reference of a content document, resolved against
\* the document's directory OEBPS/text/volume_VVV/, is exactly the file the
\* resolver persisted for it: for a rewritten img of a chapter document the
\* file download_illustration wrote for that element, for the img of a
\* chapter_000 document the volume's cover file.
C27_LocalReferencesResolve ==
    /\ (IllustrationsRan /\ call[1].result[1].ok) =>
          \A u \in Rewritten :
              /\ u \in Succeeded
              /\ Resolve(TextVolumeDir(volume_index), call[1].result[1].doc[u[1]][u[2]].src.path)
                    = PersistedFor(u)
              /\ PersistedFor(u) \in files
    /\ \A i \in Covered :
          Append(TextVolumeDir(i - 1), "chapter_000.xhtml") \in files =>
              /\ Resolve(TextVolumeDir(i - 1), VolumeCoverImgSrc(volumes[i]))
                    = <<"OEBPS">> \o volumes[i].cover_image_path
              /\ <<"OEBPS">> \o volumes[i].cover_image_path \in files

(***************************************************************************)
(* Properties of the navigation document against the manifest (SpecMeta).  *)
(***************************************************************************)
\* the content src of every navPoint of a navMap, volume level and chapter level
NavSources(navMap) ==
    {navMap[n].src : n \in DOMAIN navMap}
        \cup UNION {{navMap[n].children[k].src : k \in DOMAIN navMap[n].children} :
                      n \in DOMAIN navMap}

\* C28: every content src of a navPoint of the navigation document, volume
\* level or chapter level, is the href of a content-document item of the
\* manifest written with it.
C28_NavTargetsDeclared ==
    (IsSome(toc_ncx) /\ IsSome(content_opf)) =>
        \A src \in NavSources(toc_ncx[1]) :
            \E m \in ContentDocuments : Manifested[m].href = src

\* a navigation document with a volume navPoint on a cover document and one
\* on a chapter, the latter's volume having lost its first chapter
C28_Witness ==
    /\ IsSome(toc_ncx)
    /\ IsSome(content_opf)
    /\ Len(toc_ncx[1]) = 2
    /\ Covered = {2}
    /\ Failed(1) = {1}
    /\ Surviving(1) = {2}
    /\ Cardinality(NavSources(toc_ncx[1])) = 3

(***************************************************************************)
(* Properties of the members of the archive (SpecZip).                     *)
(***************************************************************************)
\* C29: when compress_epub succeeds, every regular file of the working tree
\* as it stood, at any depth, is a member of the archive exactly once under
\* its path relative to the root; the root mimetype is there once (the walk
\* does not add it again), and every member is a file of the tree.
C29_ArchiveMirrorsTree ==
    [][(pc = "compress" /\ zip_result' = "Ok") =>
          /\ IsSome(zip') /\ zip'[1].finished
          /\ \A f \in files :
                Cardinality({k \in DOMAIN zip'[1].members : zip'[1].members[k].name = f}) = 1
          /\ \A k \in DOMAIN zip'[1].members : zip'[1].members[k].name \in files
          /\ Cardinality({k \in DOMAIN zip'[1].members :
                            zip'[1].members[k].name = <<"mimetype">>}) = 1
          /\ Len(zip'[1].members) = Cardinality(files)]_vars

\* an archive was finished for a tree with an illustration five levels deep
\* and a cover document, read in the most turned order, and the tree removed
C29_Witness ==
    /\ zip_result = "Ok"
    /\ IsSome(zip)
    /\ \E k \in DOMAIN zip[1].members : Len(zip[1].members[k].name) = 5
    /\ \E k \in DOMAIN zip[1].members : FileName(zip[1].members[k].name) = "chapter_000.xhtml"
    /\ dir_order.rot = 2
    /\ files = {}

(***************************************************************************)
(* Properties of the order of the job's phases (Spec).                     *)
(***************************************************************************)
\* the files generate_epub_metadata writes when it returns Ok
MetadataFiles ==
    {<<"mimetype">>, <<"META-INF", "container.xml">>, <<"OEBPS", "content.opf">>,
     <<"OEBPS", "toc.ncx">>}
        \cup {Append(TextVolumeDir(i - 1), "chapter_000.xhtml") : i \in Covered}

\* C30: the phases of a job come in a fixed order.  generate_epub_metadata
\* starts only when the chapters of all volumes are done, and no chapter or
\* cover is fetched afterwards; compress_epub starts only after
\* generate_epub_metadata has returned Ok, with all its files written; the
\* working tree is removed only in the step that finishes the archive; when
\* generate_epub_metadata fails, compress_epub is never invoked, no archive
\* is created, the tree stays and the job returns Err.
C30_PhasesInOrder ==
    [][/\ (content_opf' # content_opf \/ toc_ncx' # toc_ncx) =>
             /\ pc = "volumes"
             /\ pc' \in {"compress", "done"}
       /\ pc \in {"compress", "done"} =>
             /\ volumes' = volumes
             /\ chapters' = chapters
             /\ attempts' = attempts
             /\ requests' = requests
             /\ cover_image_path' = cover_image_path
             /\ content_opf' = content_opf
             /\ toc_ncx' = toc_ncx
       /\ pc' = "compress" =>
             /\ pc = "volumes"
             /\ IsSome(content_opf') /\ IsSome(toc_ncx')
             /\ MetadataFiles \subseteq files'
             /\ result' = "none"
       /\ (zip' # zip \/ zip_result' # zip_result) => pc = "compress"
       /\ (~(files \subseteq files') \/ ~(dirs \subseteq dirs')) =>
             /\ pc = "compress"
             /\ IsSome(zip') /\ zip'[1].finished
             /\ zip_result' = "Ok"
       /\ (pc = "volumes" /\ pc' = "done") =>
             /\ result' = "Err"
             /\ ~(MetadataFiles \subseteq files')
       /\ result' = "Err" =>
             /\ zip' = None
             /\ zip_result' = "none"
             /\ pc' = "done"]_vars

\* generate_epub_metadata failed after content.opf, writing toc.ncx, for a
\* novel with a fetched chapter: the job is over in Err with the tree as
\* written so far and without an archive
C30_Witness ==
    /\ pc = "done"
    /\ result = "Err"
    /\ IsSome(content_opf)
    /\ toc_ncx = None
    /\ zip = None
    /\ \E i \in DOMAIN volumes : Surviving(i) # {}
    /\ <<"OEBPS", "content.opf">> \in files
    /\ <<"OEBPS", "text", "volume_001", "chapter_001.xhtml">> \in files

====
